---- MODULE Spec2Model ----
(***************************************************************************)
(* Model of backblaze-b2-rs.                                               *)
(*                                                                         *)
(* Part 1: source/auth_source.rs, the shared authorization store           *)
(* (AuthSource / AuthInner / AuthSourceFuture / AuthTask).  Every atomic   *)
(* operation of the code on the shared AuthInner (a read or a set of the   *)
(* ArcCell `state`, the compare_and_swap and the store on `reauth_lock`,   *)
(* a push or a try_pop on the SegQueue `notify`, a send on a oneshot       *)
(* channel) is one step, so that TLC explores every interleaving of the    *)
(* threads that share one AuthSource with the spawned AuthTasks.           *)
(***************************************************************************)
EXTENDS Integers, Sequences, FiniteSets, TLC

\* ------------------------------------------------------------------ bounds
\* Number of threads that use the shared AuthSource; each performs one call.
NProcs == 2

Procs == 1..NProcs
\* One AuthTask can be spawned by each call at most.
Tasks == 1..NProcs

\* ------------------------------------------------------------------ values
\* Placeholder of the auth field where there is no authorization.
NoAuth == -1
\* A credential that was obtained out of band, before any refresh.
OldCred == 0

\* enum AuthState
NoActiveAuth == [active |-> FALSE, auth |-> NoAuth]
ActiveAuth(a) == [active |-> TRUE, auth |-> a]

\* Result<B2Authorization, Arc<B2Error>>
Ok(a) == [ok |-> TRUE, auth |-> a, err |-> "none"]
Err(e) == [ok |-> FALSE, auth |-> NoAuth, err |-> e]

\* The authorization of the n-th b2_authorize_account call: the server issues
\* a new token on every call.  Tokens are numbered after OldCred.
NewToken(n) == OldCred + n

\* What the B2AuthFuture of the n-th authorize call can resolve to.
AuthorizeOutcomes(n) == {Ok(NewToken(n)), Err("authorize")}

\* The error that Drop for AuthTask synthesises.
DroppedErr == Err("dropped")

VARIABLES
    state,        \* AuthInner.state : ArcCell<AuthState>
    reauth_lock,  \* AuthInner.reauth_lock : AtomicBool
    notify,       \* AuthInner.notify : SegQueue of oneshot senders (by receiver)
    chan,         \* the oneshot channel of each waiter: <<>> or <<result>>
    fut,          \* per thread: the call it makes and where it is in it
    task,         \* the spawned AuthTasks, in the order of their spawn
    nspawned      \* number of authorize calls made (= AuthTasks spawned)

vars == <<state, reauth_lock, notify, chan, fut, task, nspawned>>

\* The incremental JSON decoder (b2_future/partial_json.rs) and its caller.
VARIABLES
    partial,      \* the PartialJson
    level0,       \* the level PartialJson::new was called with
    input,        \* the bytes of the body
    elems,        \* the elements the body was built from (<<>> if arbitrary)
    pos,          \* number of bytes of the body pushed so far
    npush,        \* number of push calls so far
    out,          \* the elements next() has returned so far, in order
    last          \* the result of the last call: of push, or of next()

jsonvars == <<partial, level0, input, elems, pos, npush, out, last>>

\* The response decoders (b2_future/mod.rs, b2_future/b2_stream.rs,
\* api/files/download/future.rs) and B2Client::send.
VARIABLES
    dec,          \* the decoder: its kind and its State
    wire,         \* what the exchange and the byte source will deliver
    rets          \* what the polls of the decoder have returned, in order

decvars == <<dec, wire, rets>>

\* The byte-stream throttles (throttle/mod.rs, throttle/async.rs).
VARIABLES
    clock,        \* what Instant::now() returns, in milliseconds
    thr,          \* the ThrottledStreams, by number
    stream_count, \* Throttle.stream_count : Arc<AtomicUsize>
    feed,         \* per stream: the lengths of the chunks its source yields
    sent,         \* per stream: the chunks its polls have returned, in order
    ret           \* per stream: what the last call on it returned

thrvars == <<clock, thr, stream_count, feed, sent, ret>>

\* The api calls (files/list_file_names.rs).
VARIABLES
    call          \* the ListFileNames being built, the calls made on it and
                  \* the body of its request

callvars == <<call>>

\* The part of the state a step of the AuthSource does not touch.
NotAuthSource == <<jsonvars, decvars, thrvars, callvars>>

\* No body is being decoded.
NoJson ==
    /\ partial = <<>> /\ level0 = 0 /\ input = <<>> /\ elems = <<>>
    /\ pos = 0 /\ npush = 0 /\ out = <<>> /\ last = <<>>

\* No response is being decoded.
NoDecoder == dec = <<>> /\ wire = <<>> /\ rets = <<>>

\* No stream is being throttled.
NoThrottle ==
    /\ clock = 0 /\ thr = <<>> /\ stream_count = 0
    /\ feed = <<>> /\ sent = <<>> /\ ret = <<>>

\* No api call is being built.
NoApiCall == call = <<>>

\* A thread: the call it makes (op), where it is in it (pc), the authorization
\* it passed in (arg) and what the future resolved to (res: <<>> or <<result>>).
\* Two fields only record history: saw (the state the call read when it
\* began) and owed (the result of the first finish
\* that began while the waiter of this thread was in the queue).
IdleFut == [op |-> "idle", pc |-> "idle", arg |-> NoAuth, saw |-> NoActiveAuth,
            res |-> <<>>, owed |-> <<>>]
\* An AuthTask: where it is (pc), the result it passes to finish (res), the
\* thread that spawned it (by), and, as history, whether provide_auth was
\* called while its future was pending (provided).
NoTask == [pc |-> "unspawned", res |-> Err("none"), by |-> 0, provided |-> FALSE]

\* ------------------------------------------------------- pure functions
\* (mutant of set_state: an error leaves the state as it is)
set_state_keeps_on_error(res) == IF res.ok THEN ActiveAuth(res.auth) ELSE state

\* AuthInner::set_state: the state a result is turned into.
set_state(res) == IF res.ok THEN ActiveAuth(res.auth) ELSE NoActiveAuth

\* (mutant of try_get_auth: the active authorization is not found)
try_get_auth_none(st) == <<>>

\* AuthInner::try_get_auth: <<auth>> for Some(auth), <<>> for None.
try_get_auth(st) == IF st.active THEN <<st.auth>> ELSE <<>>

\* (mutant of reauthenticate_returns: no comparison with the active one)
reauthenticate_never_returns(auth, st) == FALSE

\* AuthSource::reauthenticate, the early return: an authorization is active
\* and it is not the one reported.
reauthenticate_returns(auth, st) == st.active /\ auth # st.auth

\* (mutant of cas_acquired: the previous value is not looked at)
cas_acquired_always(previous) == TRUE

\* compare_and_swap(false, true) returns the previous value; the lock is
\* acquired when that value is false.
cas_acquired(previous) == previous = FALSE

\* The value finish stores into reauth_lock.
finish_lock_value == FALSE

\* B2AuthFuture::is_done: the future has resolved (AuthTask::poll has seen
\* its result and has called finish).
is_done(t) == task[t].pc # "pending"

\* (mutant of after_start_reauth: every call waits for the refresh)
after_start_reauth_waits(op) == "push"

\* What a call does after start_reauth returns: reauth() pushes a waiter,
\* reauthenticate() returns.
after_start_reauth(op) == IF op = "authentication" THEN "push" ELSE "Done"

\* ----------------------------------------------------------------- Init
\* AuthInner::new
Init ==
    /\ state = NoActiveAuth
    /\ reauth_lock = FALSE
    /\ notify = <<>>
    /\ chan = [p \in Procs |-> <<>>]
    /\ fut = [p \in Procs |-> IdleFut]
    /\ task = [t \in Tasks |-> NoTask]
    /\ nspawned = 0
    /\ NoJson
    /\ NoDecoder
    /\ NoThrottle
    /\ NoApiCall

\* Threads are interchangeable: they make their calls in the order of their
\* numbers.
MayStart(p) == fut[p].op = "idle" /\ (IF p = 1 THEN TRUE ELSE fut[p - 1].op # "idle")

\* A provide_auth during the flight of a task is remembered in the task.
NoteProvided == [t \in Tasks |->
    IF task[t].pc = "pending" THEN [task[t] EXCEPT !.provided = TRUE] ELSE task[t]]

\* ---------------------------------------------------------- the callers
\* AuthSource::authentication and the first poll of the future
\* (AuthSourceFutureState::NotRequested): try_get_auth.
PollNotRequested(p) ==
    /\ MayStart(p)
    /\ LET got == try_get_auth(state) IN
       fut' = [fut EXCEPT ![p] =
                IF got # <<>>
                THEN [op |-> "authentication", pc |-> "Done", arg |-> NoAuth,
                      saw |-> state, res |-> <<Ok(got[1])>>, owed |-> <<>>]
                ELSE [op |-> "authentication", pc |-> "cas", arg |-> NoAuth,
                      saw |-> state, res |-> <<>>, owed |-> <<>>]]
    /\ UNCHANGED <<state, reauth_lock, notify, chan, task, nspawned>>
    /\ UNCHANGED NotAuthSource

\* AuthSource::reauthenticate(auth): the read of the state and the comparison.
Reauthenticate(p, auth) ==
    /\ MayStart(p)
    /\ fut' = [fut EXCEPT ![p] =
                [op |-> "reauthenticate",
                 pc |-> IF reauthenticate_returns(auth, state) THEN "Done" ELSE "cas",
                 arg |-> auth,
                 saw |-> state,
                 res |-> <<>>, owed |-> <<>>]]
    /\ UNCHANGED <<state, reauth_lock, notify, chan, task, nspawned>>
    /\ UNCHANGED NotAuthSource

\* AuthSource::provide_auth(auth)
ProvideAuth(p, auth) ==
    /\ MayStart(p)
    /\ state' = set_state(Ok(auth))
    /\ fut' = [fut EXCEPT ![p] =
                [op |-> "provide_auth", pc |-> "Done", arg |-> auth,
                 saw |-> state, res |-> <<>>, owed |-> <<>>]]
    /\ task' = NoteProvided
    /\ UNCHANGED <<reauth_lock, notify, chan, nspawned>>
    /\ UNCHANGED NotAuthSource

\* AuthInner::start_reauth, the compare_and_swap.
StartReauthCas(p) ==
    /\ fut[p].pc = "cas"
    /\ IF cas_acquired(reauth_lock)
       THEN fut' = [fut EXCEPT ![p].pc = "locked"]
       ELSE fut' = [fut EXCEPT ![p].pc = after_start_reauth(fut[p].op)]
    /\ reauth_lock' = TRUE
    /\ UNCHANGED <<state, notify, chan, task, nspawned>>
    /\ UNCHANGED NotAuthSource

\* AuthInner::start_reauth, with the lock: state.set(NoActiveAuth), authorize
\* and spawn(AuthTask).  The spawn only makes the new task runnable, so it is
\* taken in the step of the set.
StartReauthLocked(p) ==
    /\ fut[p].pc = "locked"
    /\ state' = NoActiveAuth
    /\ nspawned' = nspawned + 1
    /\ task' = [task EXCEPT ![nspawned + 1] =
                 [pc |-> "pending", res |-> Err("none"), by |-> p,
                  provided |-> FALSE]]
    /\ fut' = [fut EXCEPT ![p].pc = after_start_reauth(fut[p].op)]
    /\ UNCHANGED <<reauth_lock, notify, chan>>
    /\ UNCHANGED NotAuthSource

\* AuthInner::reauth after start_reauth: oneshot::channel and notify.push.
ReauthPush(p) ==
    /\ fut[p].pc = "push"
    /\ notify' = Append(notify, p)
    /\ fut' = [fut EXCEPT ![p].pc = "Waiting"]
    /\ UNCHANGED <<state, reauth_lock, chan, task, nspawned>>
    /\ UNCHANGED NotAuthSource

\* AuthSourceFuture::poll in Waiting, when the receiver is ready (a poll that
\* finds it not ready leaves the future as it is).
PollWaiting(p) ==
    /\ fut[p].pc = "Waiting"
    /\ chan[p] # <<>>
    /\ fut' = [fut EXCEPT ![p].pc = "Done", ![p].res = chan[p]]
    /\ UNCHANGED <<state, reauth_lock, notify, chan, task, nspawned>>
    /\ UNCHANGED NotAuthSource

\* ------------------------------------------------------------ the AuthTask
InQueue == {notify[i] : i \in 1..Len(notify)}

\* AuthTask::finish, first statement: set_state(res).
FinishSetState(t, res) ==
    /\ state' = set_state(res)
    /\ task' = [task EXCEPT ![t].pc = "unlock", ![t].res = res]
    /\ fut' = [p \in Procs |->
                IF p \in InQueue /\ fut[p].owed = <<>>
                THEN [fut[p] EXCEPT !.owed = <<res>>] ELSE fut[p]]
    /\ UNCHANGED <<reauth_lock, notify, chan, nspawned>>
    /\ UNCHANGED NotAuthSource

\* AuthTask::poll when the B2AuthFuture resolves: finish(Ok(auth)) or
\* finish(Err(err)).
TaskPoll(t) ==
    /\ task[t].pc = "pending"
    /\ \E res \in AuthorizeOutcomes(t) : FinishSetState(t, res)

\* Drop for AuthTask: finish(Err(..)) unless the future is done (the drop of
\* a task whose future is done changes nothing).
TaskDrop(t) ==
    /\ task[t].pc # "unspawned"
    /\ ~is_done(t)
    /\ FinishSetState(t, DroppedErr)

\* AuthTask::finish, second statement: reauth_lock.store(false).
FinishUnlock(t) ==
    /\ task[t].pc = "unlock"
    /\ reauth_lock' = finish_lock_value
    /\ task' = [task EXCEPT ![t].pc = "drain"]
    /\ UNCHANGED <<state, notify, chan, fut, nspawned>>
    /\ UNCHANGED NotAuthSource

\* AuthTask::finish, the loop: one try_pop, and the send of the result.
FinishPop(t) ==
    /\ task[t].pc = "drain"
    /\ IF notify = <<>>
       THEN /\ task' = [task EXCEPT ![t].pc = "done"]
            /\ UNCHANGED <<notify, chan, fut>>
       ELSE /\ notify' = Tail(notify)
            /\ chan' = [chan EXCEPT ![Head(notify)] = <<task[t].res>>]
            /\ fut' = [fut EXCEPT ![Head(notify)].owed = <<>>]
            /\ UNCHANGED task
    /\ UNCHANGED <<state, reauth_lock, nspawned>>
    /\ UNCHANGED NotAuthSource

\* ------------------------------------------------------- specifications
TaskStep ==
    \E t \in Tasks : TaskPoll(t) \/ TaskDrop(t) \/ FinishUnlock(t) \/ FinishPop(t)

StartReauthStep ==
    \E p \in Procs : StartReauthCas(p) \/ StartReauthLocked(p)

AuthenticationStep ==
    \E p \in Procs : PollNotRequested(p) \/ ReauthPush(p) \/ PollWaiting(p)

ReauthenticateStep ==
    \E p \in Procs : \E a \in {OldCred, NewToken(1)} : Reauthenticate(p, a)

ProvideAuthStep ==
    \E p \in Procs : ProvideAuth(p, OldCred)

Next ==
    \/ AuthenticationStep
    \/ ReauthenticateStep
    \/ ProvideAuthStep
    \/ StartReauthStep
    \/ TaskStep

Spec == Init /\ [][Next]_vars

\* Only authentication() futures are polled, on a new AuthSource.
NextCallers == AuthenticationStep \/ StartReauthStep \/ TaskStep

SpecCallers == Init /\ [][NextCallers]_vars

\* The AuthSource after provide_auth(OldCred); only reauthenticate is called.
InitExpire ==
    /\ state = ActiveAuth(OldCred)
    /\ reauth_lock = FALSE
    /\ notify = <<>>
    /\ chan = [p \in Procs |-> <<>>]
    /\ fut = [p \in Procs |-> IdleFut]
    /\ task = [t \in Tasks |-> NoTask]
    /\ nspawned = 0
    /\ NoJson
    /\ NoDecoder
    /\ NoThrottle
    /\ NoApiCall

NextExpire == ReauthenticateStep \/ StartReauthStep \/ TaskStep

SpecExpire == InitExpire /\ [][NextExpire]_vars

\* ----------------------------------------------------------------------
\* Claims about the AuthSource
\* ----------------------------------------------------------------------
Spawned == {t \in Tasks : task[t].pc # "unspawned"}

\* The threads and tasks that hold reauth_lock: a thread between its
\* successful compare_and_swap and the spawn, a task until its store(false).
LockHoldingProcs == {p \in Procs : fut[p].pc = "locked"}
LockHoldingTasks == {t \in Tasks : task[t].pc \in {"pending", "unlock"}}

\* Nothing can happen any more unless a new call is made.
Quiescent ==
    /\ \A p \in Procs : fut[p].pc \in {"idle", "Waiting", "Done"}
    /\ \A p \in Procs : fut[p].pc = "Waiting" => chan[p] = <<>>
    /\ \A t \in Tasks : task[t].pc \in {"unspawned", "done"}

\* C1 (as claimed): authentication() futures polled concurrently on an
\* AuthSource without authorization start one refresh in total, and all of
\* them resolve to the same outcome.
C1_OneRefreshSameOutcome ==
    /\ nspawned <= 1
    /\ \A p, q \in Procs :
         (fut[p].res # <<>> /\ fut[q].res # <<>>) => fut[p].res = fut[q].res

\* C2: at most one refresh is in flight: reauth_lock is true exactly while
\* one thread or task holds it, nobody else holds it then, a task is spawned
\* by the thread that acquired the lock, and only the store of a finish
\* releases the lock.
C2_AtMostOneRefreshInFlight ==
    /\ Cardinality(LockHoldingProcs) + Cardinality(LockHoldingTasks)
         = (IF reauth_lock THEN 1 ELSE 0)
    /\ Cardinality({t \in Tasks : task[t].pc = "pending"}) <= 1
    /\ \A t \in Spawned : fut[task[t].by].pc \notin {"idle", "cas", "locked"}

C2_Witness ==
    \E t \in Tasks : \E p \in Procs :
        /\ task[t].pc = "pending"
        /\ p # task[t].by
        /\ fut[p].op = "authentication"
        /\ fut[p].pc \in {"push", "Waiting"}

\* C3 (as claimed): every authentication() future that found no active
\* authorization resolves once the spawned refresh tasks have completed or
\* have been dropped: when nothing is left to run, no future is waiting.
C3_ResolvedWhenQuiescent ==
    Quiescent => \A p \in Procs : fut[p].pc # "Waiting"

\* C4 (as claimed): when an AuthTask is dropped before its future is done,
\* every waiter that is in the queue at that moment is notified with an
\* error.
C4_DropNotifiesQueuedWithError ==
    [][\A p \in Procs :
         (chan[p] = <<>> /\ chan'[p] # <<>> /\ fut[p].owed = <<DroppedErr>>)
           => ~chan'[p][1].ok]_vars

\* C5 (as claimed): when the refresh fails, every waiter that is in the queue
\* at the completion receives that error, no authorization is active after
\* the completion, and the lock is released by the finish.
C5_FailureNotifiesQueuedWithSameError ==
    [][/\ \A p \in Procs :
            (chan[p] = <<>> /\ chan'[p] # <<>> /\ fut[p].owed = <<Err("authorize")>>)
              => chan'[p] = <<Err("authorize")>>
       /\ \A t \in Tasks :
            (task[t].pc = "pending" /\ task'[t].pc = "unlock" /\ ~task'[t].res.ok)
              => state' = NoActiveAuth
       /\ \A t \in Tasks :
            (task[t].pc = "unlock" /\ task'[t].pc = "drain") => reauth_lock' = FALSE
      ]_vars

\* The refreshes started by reauthenticate(OldCred) calls that found OldCred
\* active.
StartedForOldCred ==
    {t \in Spawned : /\ fut[task[t].by].op = "reauthenticate"
                     /\ fut[task[t].by].arg = OldCred
                     /\ fut[task[t].by].saw = ActiveAuth(OldCred)}

\* C6 (as claimed): the calls that report the same active authorization as
\* expired start one refresh between them.
C6_OneRefreshForExpired == Cardinality(StartedForOldCred) <= 1

\* C7 (as claimed): reauthenticate(old) never clears or replaces an active
\* authorization that differs from old.
C7_StaleReportKeepsNewer ==
    [][\A p \in Procs :
         (/\ fut[p].op = "reauthenticate"
          /\ fut'[p] # fut[p]
          /\ state.active
          /\ state.auth # fut[p].arg) => state' = state]_vars

\* C8: reauthenticate(stale) that runs while another authorization is active
\* returns at once and changes neither the state, the lock, the queue nor
\* the tasks.
C8_StaleReportIsNoOp ==
    [][\A p \in Procs :
         (/\ fut[p].op = "idle"
          /\ fut'[p].op = "reauthenticate"
          /\ state.active
          /\ state.auth # fut'[p].arg)
           => /\ fut'[p].pc = "Done"
              /\ UNCHANGED <<state, reauth_lock, notify, chan, task, nspawned>>]_vars

C8_Witness ==
    \E p \in Procs :
        /\ fut[p].op = "reauthenticate"
        /\ fut[p].pc = "Done"
        /\ fut[p].saw.active
        /\ fut[p].saw.auth # fut[p].arg
        /\ state = fut[p].saw

\* C9: with an active authorization the first poll of an authentication()
\* future resolves to it, and changes neither the lock, the queue nor the
\* tasks (no authorize call).
C9_ActiveResolvesOnFirstPoll ==
    [][\A p \in Procs :
         (/\ fut[p].op = "idle"
          /\ fut'[p].op = "authentication"
          /\ state.active)
           => /\ fut'[p].pc = "Done"
              /\ fut'[p].res = <<Ok(state.auth)>>
              /\ UNCHANGED <<state, reauth_lock, notify, chan, task, nspawned>>]_vars

C9_Witness ==
    \E p \in Procs :
        /\ fut[p].op = "authentication"
        /\ fut[p].pc = "Done"
        /\ fut[p].saw.active
        /\ fut[p].res = <<Ok(fut[p].saw.auth)>>
        /\ chan[p] = <<>>

\* C10: provide_auth(c) makes c the active authorization whatever the state
\* was, and the completion of a refresh writes its outcome over whatever is
\* active then: its authorization, or no authorization when it failed.
C10_LastWriteWins ==
    [][/\ \A p \in Procs :
            (fut[p].op = "idle" /\ fut'[p].op = "provide_auth")
              => state' = ActiveAuth(fut'[p].arg)
       /\ \A t \in Tasks :
            (task[t].pc = "pending" /\ task'[t].pc = "unlock")
              => state' = (IF task'[t].res.ok THEN ActiveAuth(task'[t].res.auth)
                                              ELSE NoActiveAuth)
      ]_vars

C10_Witness ==
    \E t \in Tasks :
        /\ task[t].provided
        /\ task[t].pc = "unlock"
        /\ ~task[t].res.ok
        /\ state = NoActiveAuth

\* C11 (as claimed): reauthenticate(auth) does not start a re-auth task:
\* no step of the call spawns a task or changes reauth_lock.
C11_ReauthenticateSpawnsNothing ==
    [][\A p \in Procs :
         (fut'[p].op = "reauthenticate" /\ fut'[p] # fut[p])
           => (nspawned' = nspawned /\ reauth_lock' = reauth_lock)]_vars

\* C11 (amended): a reauthenticate(auth) that does not return at its
\* comparison does a compare_and_swap on reauth_lock; the call that acquires
\* the lock removes the active authorization and spawns exactly one re-auth
\* task, and returns without waiting for it; a call that finds the lock taken
\* returns and changes nothing.
C11_ReauthenticateStartsRefresh ==
    [][\A p \in Procs :
         (fut'[p].op = "reauthenticate" /\ fut'[p] # fut[p]) =>
           CASE fut[p].pc = "cas" ->
                  /\ UNCHANGED <<state, notify, chan, task, nspawned>>
                  /\ reauth_lock' = TRUE
                  /\ fut'[p].pc = (IF reauth_lock THEN "Done" ELSE "locked")
             [] fut[p].pc = "locked" ->
                  /\ state' = NoActiveAuth
                  /\ nspawned' = nspawned + 1
                  /\ task'[nspawned'].by = p
                  /\ task'[nspawned'].pc = "pending"
                  /\ UNCHANGED <<reauth_lock, notify, chan>>
                  /\ fut'[p].pc = "Done"
             [] OTHER ->
                  /\ fut[p].op = "idle"
                  /\ UNCHANGED <<state, reauth_lock, notify, chan, task, nspawned>>
      ]_vars

C11_Witness ==
    \E t \in Spawned :
        /\ fut[task[t].by].op = "reauthenticate"
        /\ fut[task[t].by].pc = "Done"
        /\ task[t].pc = "pending"

\* ----------------------------------------------------------------------
\* The incremental JSON decoder: b2_future/partial_json.rs
\* ----------------------------------------------------------------------
\* Longest body of the specification over arbitrary bytes.
MaxLen == 4

\* Most chunks a body is pushed in.
MaxPush == 4

\* The bytes a body is made of: the ones the scanner tells apart, a digit
\* and a blank.
Bytes == {"[", "]", "{", "}", ",", "\"", "\\", " ", "1"}

\* char::is_whitespace, on the bytes above.
is_whitespace(c) == c = " "

\* The levels PartialJson::new is called with: 1 for a bare array, 2 for an
\* array inside an object.
Levels == {1, 2}

\* Results of next(): Ok(None), Ok(Some(value)), Err(error); a panic of the
\* thread is a fourth outcome.
None == [tag |-> "None", val |-> <<>>]
Some(v) == [tag |-> "Some", val |-> v]
JsonErr(e) == [tag |-> "Err", val |-> e]
Panic == [tag |-> "Panic", val |-> <<>>]
\* What the caller did last, when it was not a call of next().
Start == [tag |-> "Start", val |-> <<>>]
Pushed == [tag |-> "Pushed", val |-> <<>>]

\* ---- serde_json::from_slice::<Value>: a body is decoded if it is one JSON
\* value between optional blanks.  The Parse operators return the position
\* after what they parsed, or 0.
RECURSIVE SkipWs(_, _)
SkipWs(s, i) == IF i <= Len(s) /\ is_whitespace(s[i]) THEN SkipWs(s, i + 1) ELSE i

RECURSIVE ParseNumber(_, _)
ParseNumber(s, i) == IF i <= Len(s) /\ s[i] = "1" THEN ParseNumber(s, i + 1) ELSE i

\* i: the position after the opening quote.
RECURSIVE ParseString(_, _)
ParseString(s, i) ==
    IF i > Len(s) THEN 0
    ELSE IF s[i] = "\"" THEN i + 1
    ELSE IF s[i] = "\\"
         THEN IF i + 1 <= Len(s) /\ s[i + 1] \in {"\"", "\\"}
              THEN ParseString(s, i + 2) ELSE 0
    ELSE ParseString(s, i + 1)

RECURSIVE ParseValue(_, _)
RECURSIVE ParseElements(_, _)
RECURSIVE ParseMembers(_, _)

ParseValue(s, i0) ==
    LET i == SkipWs(s, i0) IN
    IF i > Len(s) THEN 0
    ELSE IF s[i] = "1" THEN ParseNumber(s, i)
    ELSE IF s[i] = "\"" THEN ParseString(s, i + 1)
    ELSE IF s[i] = "["
         THEN LET j == SkipWs(s, i + 1) IN
              IF j <= Len(s) /\ s[j] = "]" THEN j + 1 ELSE ParseElements(s, i + 1)
    ELSE IF s[i] = "{"
         THEN LET j == SkipWs(s, i + 1) IN
              IF j <= Len(s) /\ s[j] = "}" THEN j + 1 ELSE ParseMembers(s, i + 1)
    ELSE 0

\* value ("," value)* "]"
ParseElements(s, i) ==
    LET v == ParseValue(s, i) IN
    IF v = 0 THEN 0
    ELSE LET j == SkipWs(s, v) IN
         IF j > Len(s) THEN 0
         ELSE IF s[j] = "," THEN ParseElements(s, j + 1)
         ELSE IF s[j] = "]" THEN j + 1
         ELSE 0

\* string ":" value ("," string ":" value)* "}"
ParseMembers(s, i0) ==
    LET i == SkipWs(s, i0) IN
    IF i > Len(s) \/ s[i] # "\"" THEN 0
    ELSE LET k == ParseString(s, i + 1) IN
         IF k = 0 THEN 0
         ELSE LET c == SkipWs(s, k) IN
              IF c > Len(s) \/ s[c] # ":" THEN 0
              ELSE LET v == ParseValue(s, c + 1) IN
                   IF v = 0 THEN 0
                   ELSE LET j == SkipWs(s, v) IN
                        IF j > Len(s) THEN 0
                        ELSE IF s[j] = "," THEN ParseMembers(s, j + 1)
                        ELSE IF s[j] = "}" THEN j + 1
                        ELSE 0

WellFormed(s) ==
    LET e == ParseValue(s, 1) IN e # 0 /\ SkipWs(s, e) = Len(s) + 1

\* The value a well-formed text denotes: the text without the blanks that
\* are outside strings.
RECURSIVE Value(_, _, _, _)
Value(s, i, in_str, esc) ==
    IF i > Len(s) THEN <<>>
    ELSE IF in_str
         THEN <<s[i]>> \o Value(s, i + 1, esc \/ s[i] # "\"", ~esc /\ s[i] = "\\")
    ELSE IF is_whitespace(s[i]) THEN Value(s, i + 1, FALSE, FALSE)
    ELSE <<s[i]>> \o Value(s, i + 1, s[i] = "\"", FALSE)

\* (mutant of from_slice: the bytes are taken as they are)
from_slice_unchecked(bytes) == Some(bytes)

from_slice(bytes) ==
    IF WellFormed(bytes) THEN Some(Value(bytes, 1, FALSE, FALSE)) ELSE JsonErr("serde_json")

\* ---- PartialJson
PartialJson_new(level) ==
    [buffer |-> <<>>, parens |-> 0, level |-> level, in_string |-> FALSE,
     last_was_escape |-> FALSE, last_was_start |-> FALSE, i |-> 0]

\* (mutant of push: the chunk replaces the bytes not yet consumed)
push_replaces(p, bytes) == [p EXCEPT !.buffer = bytes]

push(p, bytes) == [p EXCEPT !.buffer = @ \o bytes]

\* (mutant of next_value: the delimiter is decoded with the element)
next_value_with_delimiter(p) ==
    [p   |-> [p EXCEPT !.buffer = SubSeq(@, p.i + 1, Len(@)), !.i = 0],
     res |-> from_slice(SubSeq(p.buffer, 1, p.i))]

\* next_value: the bytes before the delimiter are decoded and the bytes up
\* to and with the delimiter are removed.  self.i - 1 underflows, and the
\* slice is out of range, if i is not within 1..len: the thread panics.
next_value(p) ==
    IF p.i = 0 \/ p.i > Len(p.buffer)
    THEN [p |-> p, res |-> Panic]
    ELSE [p   |-> [p EXCEPT !.buffer = SubSeq(@, p.i + 1, Len(@)), !.i = 0],
          res |-> from_slice(SubSeq(p.buffer, 1, p.i - 1))]

\* (mutant of is_start: an open bracket never marks a start)
is_start_never(parens, level) == FALSE

\* self.last_was_start = self.parens == self.level, after an open bracket.
is_start(parens, level) == parens = level

\* (mutant of close_at_zero: the depth is not looked at)
close_unchecked(parens) == FALSE

\* The test before self.parens -= 1.
close_at_zero(parens) == parens = 0

\* (mutant of in_string_step: the escapes are not tracked, so that every
\* quote ends the string)
in_string_step_no_escape(q, next_char) ==
    IF next_char = "\"" THEN [q EXCEPT !.in_string = FALSE] ELSE q

\* next, for a byte inside a string: the byte after a backslash is skipped,
\* a quote ends the string, a backslash starts an escape.
in_string_step(q, next_char) ==
    IF q.last_was_escape THEN [q EXCEPT !.last_was_escape = FALSE]
    ELSE IF next_char = "\"" THEN [q EXCEPT !.in_string = FALSE]
    ELSE IF next_char = "\\" THEN [q EXCEPT !.last_was_escape = TRUE]
    ELSE q

\* next: the loop, up to its return.
RECURSIVE next(_)
next(p) ==
    IF p.i = Len(p.buffer) THEN [p |-> p, res |-> None]
    ELSE IF p.i > Len(p.buffer) THEN [p |-> p, res |-> Panic]
    ELSE
    LET next_char == p.buffer[p.i + 1]
        q == IF p.parens < p.level
             THEN [p EXCEPT !.buffer = Tail(@)]
             ELSE [p EXCEPT !.i = @ + 1]
    IN
    IF q.in_string
    THEN next(in_string_step(q, next_char))
    ELSE IF next_char \in {"[", "{"}
    THEN next([q EXCEPT !.parens = @ + 1,
                        !.last_was_start = is_start(q.parens + 1, q.level)])
    ELSE IF next_char = ","
    THEN LET r == [q EXCEPT !.last_was_start = FALSE] IN
         IF r.parens = r.level THEN next_value(r) ELSE next(r)
    ELSE IF next_char = "\""
    THEN next([q EXCEPT !.last_was_start = FALSE, !.in_string = TRUE])
    ELSE IF next_char \in {"]", "}"}
    THEN IF close_at_zero(q.parens)
         THEN [p |-> q, res |-> JsonErr("Invalid json")]
         ELSE LET r == [q EXCEPT !.parens = @ - 1] IN
              IF r.parens = r.level - 1 /\ ~r.last_was_start
              THEN next_value(r)
              ELSE next([r EXCEPT !.last_was_start = FALSE])
    ELSE next(IF ~is_whitespace(next_char)
              THEN [q EXCEPT !.last_was_start = FALSE] ELSE q)

\* ---- the caller: push a chunk, then next() until it returns None; an
\* error ends the decoding (tests of partial_json.rs; State::Collecting).
\* A body of any bytes.
AnyBodies == UNION {[1..n -> Bytes] : n \in 0..MaxLen}

InitJson ==
    /\ level0 \in Levels
    /\ input \in AnyBodies
    /\ elems = <<>>
    /\ partial = PartialJson_new(level0)
    /\ pos = 0
    /\ npush = 0
    /\ out = <<>>
    /\ last = Start
    /\ state = NoActiveAuth /\ reauth_lock = FALSE /\ notify = <<>>
    /\ chan = [p \in Procs |-> <<>>] /\ fut = [p \in Procs |-> IdleFut]
    /\ task = [t \in Tasks |-> NoTask] /\ nspawned = 0
    /\ NoDecoder
    /\ NoThrottle
    /\ NoApiCall

\* json.push(chunk), with the next n bytes of the body.
JsonPush(n) ==
    /\ last.tag \in {"Start", "None"}
    /\ npush < MaxPush
    /\ pos + n <= Len(input)
    /\ partial' = push(partial, SubSeq(input, pos + 1, pos + n))
    /\ pos' = pos + n
    /\ npush' = npush + 1
    /\ last' = Pushed
    /\ UNCHANGED <<level0, input, elems, out>>
    /\ UNCHANGED <<vars, decvars, thrvars, callvars>>

\* json.next()
JsonNext ==
    /\ last.tag \in {"Pushed", "Some"}
    /\ LET r == next(partial) IN
       /\ partial' = r.p
       /\ last' = r.res
       /\ out' = IF r.res.tag = "Some" THEN Append(out, r.res.val) ELSE out
    /\ UNCHANGED <<level0, input, elems, pos, npush>>
    /\ UNCHANGED <<vars, decvars, thrvars, callvars>>

NextJson == JsonNext \/ \E n \in 1..Len(input) : JsonPush(n)

SpecJson == InitJson /\ [][NextJson]_jsonvars

\* The decoding of the whole body pushed at once: next() until it returns
\* something other than an element.
RECURSIVE Drain(_, _)
Drain(p, acc) ==
    LET r == next(p) IN
    IF r.res.tag = "Some" THEN Drain(r.p, Append(acc, r.res.val))
    ELSE [out |-> acc, res |-> r.res]

AtOnce(level, bytes) == Drain(push(PartialJson_new(level), bytes), <<>>)

\* The decoding of the body is over: the body is pushed and next() has
\* returned None, or next() has failed.
JsonFinished ==
    \/ last.tag \in {"Err", "Panic"}
    \/ last.tag = "None" /\ pos = Len(input)

\* C12: however the body is split into push calls, the elements extracted
\* and the final outcome are those of the body pushed at once.
C12_ConcatenationInvariance ==
    JsonFinished =>
        /\ out = AtOnce(level0, input).out
        /\ last = AtOnce(level0, input).res

\* A body pushed in two chunks or more has been decoded to its end and its
\* first element has two bytes or more.
C12_Witness ==
    /\ JsonFinished
    /\ npush >= 2
    /\ out # <<>>
    /\ Len(out[1]) >= 2

\* The first closing bracket of the bytes that is outside a string and has
\* no open bracket before it (0: there is none).
RECURSIVE UnmatchedClose(_, _, _, _, _)
UnmatchedClose(s, k, depth, in_str, esc) ==
    IF k > Len(s) THEN 0
    ELSE IF in_str
         THEN UnmatchedClose(s, k + 1, depth, esc \/ s[k] # "\"", ~esc /\ s[k] = "\\")
    ELSE IF s[k] \in {"[", "{"} THEN UnmatchedClose(s, k + 1, depth + 1, FALSE, FALSE)
    ELSE IF s[k] \in {"]", "}"}
         THEN IF depth = 0 THEN k ELSE UnmatchedClose(s, k + 1, depth - 1, FALSE, FALSE)
    ELSE UnmatchedClose(s, k + 1, depth, s[k] = "\"", FALSE)

\* C15: next() never panics and the depth never goes below zero; a decoding
\* that no element has failed ends in the error "Invalid json" exactly when
\* the body has a closing bracket at depth zero.
C15_CloseAtDepthZeroIsError ==
    /\ last.tag # "Panic"
    /\ partial.parens >= 0
    /\ partial.i <= Len(partial.buffer)
    /\ (JsonFinished /\ last # JsonErr("serde_json")) =>
          (last = JsonErr("Invalid json")
              <=> UnmatchedClose(input, 1, 0, FALSE, FALSE) # 0)

\* A closing bracket at depth zero, met after an element was extracted.
C15_Witness ==
    /\ last = JsonErr("Invalid json")
    /\ partial.parens = 0
    /\ out # <<>>

\* ---- Well-formed arrays
\* Most elements of an array.
MaxElems == 2

\* The texts of the elements: a number, a string (with an escaped quote, a
\* comma and a bracket in it), an array (with an empty array and a comma in
\* it) and an object.
ElemTexts ==
    { <<"1">>,
      <<"\"", "\\", "\"", ",", "]", "\"">>,
      <<"[", "[", "]", ",", "1", "]">>,
      <<"{", "\"", "1", "\"", ":", "[", "1", "]", "}">> }

\* Blanks after each bracket and comma and before each closing bracket.
Pads == {<<>>, <<" ">>}

RECURSIVE Joined(_, _)
Joined(es, pad) ==
    IF es = <<>> THEN <<>>
    ELSE IF Len(es) = 1 THEN es[1] \o pad
    ELSE es[1] \o pad \o <<",">> \o pad \o Joined(Tail(es), pad)

ArrayText(es, pad) == <<"[">> \o pad \o Joined(es, pad) \o <<"]">>

\* The bodies: the bare array (level 1), and the array inside an object
\* (level 2) under a key that is a string and under one that is not.
Wrappers ==
    { [level |-> 1, before |-> <<>>, after |-> <<>>],
      [level |-> 2, before |-> <<"{", "\"", "1", "\"", ":">>, after |-> <<"}">>],
      [level |-> 2, before |-> <<"{", "1", ":">>, after |-> <<"}">>] }

InitArray ==
    /\ elems \in UNION {[1..n -> ElemTexts] : n \in 0..MaxElems}
    /\ \E w \in Wrappers : \E pad \in Pads :
          /\ level0 = w.level
          /\ input = w.before \o pad \o ArrayText(elems, pad) \o pad \o w.after
    /\ partial = PartialJson_new(level0)
    /\ pos = 0
    /\ npush = 0
    /\ out = <<>>
    /\ last = Start
    /\ state = NoActiveAuth /\ reauth_lock = FALSE /\ notify = <<>>
    /\ chan = [p \in Procs |-> <<>>] /\ fut = [p \in Procs |-> IdleFut]
    /\ task = [t \in Tasks |-> NoTask] /\ nspawned = 0
    /\ NoDecoder
    /\ NoThrottle
    /\ NoApiCall

SpecArray == InitArray /\ [][NextJson]_jsonvars

\* The values of the elements the body was built from.
Expected == [k \in 1..Len(elems) |-> Value(elems[k], 1, FALSE, FALSE)]

\* C13: a well-formed array at the target depth yields its elements, in
\* their order, and then None: what next() has returned so far is the
\* beginning of the elements, and all of them when the decoding is over.
C13_ArrayYieldsItsElements ==
    /\ last.tag \in {"Start", "Pushed", "Some", "None"}
    /\ Len(out) <= Len(elems)
    /\ out = SubSeq(Expected, 1, Len(out))
    /\ JsonFinished => (out = Expected /\ last = None)

\* An array of MaxElems elements inside an object, with blanks, one element
\* itself an array, pushed in two chunks or more, decoded to its end.
C13_Witness ==
    /\ JsonFinished
    /\ Len(elems) = MaxElems
    /\ out = Expected
    /\ level0 = 2
    /\ npush >= 2
    /\ \E k \in 1..Len(out) : Len(out[k]) > 2 /\ out[k][1] = "["
    /\ \E k \in 1..Len(input) : input[k] = " "

\* C14: a container at the target depth that holds nothing but blanks yields
\* no element: no call of next() returns a value or an error.
C14_EmptyContainerYieldsNothing ==
    elems = <<>> =>
        /\ out = <<>>
        /\ last.tag \in {"Start", "Pushed", "None"}

\* A container of blanks pushed in two chunks, decoded to its end.
C14_Witness ==
    /\ elems = <<>>
    /\ \E k \in 1..Len(input) : input[k] = " "
    /\ npush = 2
    /\ JsonFinished
    /\ last = None

\* ----------------------------------------------------------------------
\* The response decoders: b2_future/mod.rs (B2Future), b2_future/b2_stream.rs
\* (B2Stream), api/files/download/future.rs (DownloadFuture), and
\* B2Client::send (client.rs)
\* ----------------------------------------------------------------------
\* StatusCode::OK, StatusCode::PARTIAL_CONTENT
OK == 200
PARTIAL_CONTENT == 206

\* The statuses of the responses: the two above and one that is no success.
Statuses == {OK, PARTIAL_CONTENT, 401}

\* The decoders; a B2Stream is made for level 1 or 2.
Kinds == {"B2Future", "B2Stream", "DownloadFuture"}

\* get_content_length(&parts): no (or no readable) Content-Length header,
\* which counts as 0, or one that is above isize::MAX.
Sizes == {"none", "over_isize_max"}

\* Vec::with_capacity(size) panics (capacity overflow) above isize::MAX.
with_capacity_panics(size) == size = "over_isize_max"

\* min(get_content_length(&parts), 0x1000000) in B2Future
capped(size) == IF size = "over_isize_max" THEN "0x1000000" ELSE size

\* What a poll returns: NotReady (Pending), Ready(value) (for a stream:
\* Ready(Some(value))), Ready(None) (the end of a stream), Err(error: its
\* kind, and for B2Error::B2Error the status and the message); or it panics.
Ret(tag, err, status, val) == [tag |-> tag, err |-> err, status |-> status, val |-> val]
NotReady == Ret("NotReady", "", 0, <<>>)
Ready(v) == Ret("Ready", "", 0, v)
ReadyNone == Ret("ReadyNone", "", 0, <<>>)
Failed(err, status, val) == Ret("Err", err, status, val)
Panicked == Ret("Panic", "", 0, <<>>)

\* What the exchange (ResponseFuture) and the byte source (Body) deliver to
\* one poll of theirs.
Ev(ev, status, size, bytes) == [ev |-> ev, status |-> status, size |-> size, bytes |-> bytes]
EvNotReady == Ev("NotReady", 0, "none", <<>>)
EvResponse(status, size) == Ev("Response", status, size, <<>>)
EvError == Ev("Error", 0, "none", <<>>)
EvChunk(bytes) == Ev("Chunk", 0, "none", bytes)
EvEnd == Ev("End", 0, "none", <<>>)

\* serde_json::from_slice::<B2ErrorMessage>: an object that is not empty.
from_slice_error_message(bytes) ==
    LET v == Value(bytes, 1, FALSE, FALSE) IN
    IF WellFormed(bytes) /\ v[1] = "{" /\ Len(v) > 2
    THEN Some(v) ELSE JsonErr("serde_json")

\* The end of the body in CollectingError: B2Error::B2Error(status, err_msg),
\* or the error of serde_json.
decode_error_body(status, bytes) ==
    LET r == from_slice_error_message(bytes) IN
    IF r.tag = "Some" THEN Failed("B2Error", status, r.val)
    ELSE Failed("serde_json", 0, <<>>)

\* The end of the body in Collecting of B2Future: the value, or an error.
decode_body(status, bytes) ==
    IF status = OK
    THEN LET r == from_slice(bytes) IN
         IF r.tag = "Some" THEN Ready(r.val) ELSE Failed("serde_json", 0, <<>>)
    ELSE decode_error_body(status, bytes)

\* Collecting of B2Stream when the body ends: Ok(Async::Ready(None)).
body_end(p) == ReadyNone

\* A decoder: its State, and in it the status of parts, the bytes collected,
\* the PartialJson and the error of FailImmediately.  (Done holds nothing:
\* the fields keep what they held when the decoder became Done.)
Decoder(kind, level, st, err) ==
    [kind |-> kind, level |-> level, state |-> st, status |-> 0,
     bytes |-> <<>>, partial |-> PartialJson_new(level), err |-> err]

\* (mutant of after_body: the decoder stays where it is)
after_body_stays(st) == st

\* The state after the end of the body.
after_body(st) == "Done"

\* (mutant of after_error: the decoder goes back to Connecting)
after_error_retry == "Connecting"

\* The state after an error of the exchange or of the byte source.
after_error == "Done"

\* (mutant of partial_next_first: the byte source is polled first, and a
\* chunk it has ready is taken before the decoder is asked)
body_poll_first(p, e) ==
    IF e.ev = "Chunk" THEN [p |-> p, res |-> None] ELSE next(p)

\* Collecting of B2Stream: "match partial.next()", and body.poll() only in
\* its arm Ok(None).  e: what the byte source has for its next poll.
partial_next_first(p, e) == next(p)

\* State::poll, called until it returns: the decoder, the events left and
\* what poll returns.  (B2Stream::poll and DownloadFuture::poll put Done in
\* self.state before the loop, so a panic leaves Done behind.)
RECURSIVE poll(_, _)
poll(d, evs) ==
    LET e == IF evs = <<>> THEN EvNotReady ELSE Head(evs)
        rest == IF evs = <<>> THEN <<>> ELSE Tail(evs)
        Return(st, r) == [d |-> [d EXCEPT !.state = st], evs |-> rest, ret |-> r]
    IN
    IF d.state = "Connecting" THEN
        IF e.ev = "NotReady" THEN Return("Connecting", NotReady)
        ELSE IF e.ev = "Error" THEN Return(after_error, Failed("hyper", 0, <<>>))
        ELSE IF d.kind = "B2Future"
        THEN IF with_capacity_panics(capped(e.size)) THEN Return("Connecting", Panicked)
             ELSE poll([d EXCEPT !.state = "Collecting", !.status = e.status], rest)
        ELSE IF e.status = OK /\ d.kind = "B2Stream"
        THEN poll([d EXCEPT !.state = "Collecting",
                            !.partial = PartialJson_new(d.level)], rest)
        ELSE IF e.status \in {OK, PARTIAL_CONTENT} /\ d.kind = "DownloadFuture"
        THEN Return("Done", Ready(<<"parts", "stream">>))
        ELSE IF with_capacity_panics(e.size) THEN Return("Done", Panicked)
        ELSE poll([d EXCEPT !.state = "CollectingError", !.status = e.status], rest)
    ELSE IF d.state = "Collecting" /\ d.kind = "B2Future" THEN
        IF e.ev = "NotReady" THEN Return("Collecting", NotReady)
        ELSE IF e.ev = "Chunk" THEN poll([d EXCEPT !.bytes = @ \o e.bytes], rest)
        ELSE IF e.ev = "End"
        THEN Return(after_body(d.state), decode_body(d.status, d.bytes))
        ELSE Return(after_error, Failed("hyper", 0, <<>>))
    ELSE IF d.state = "Collecting" THEN
        LET r == partial_next_first(d.partial, e) IN
        IF r.res.tag = "Some"
        THEN [d |-> [d EXCEPT !.partial = r.p], evs |-> evs, ret |-> Ready(r.res.val)]
        ELSE IF r.res.tag = "Err"
        THEN [d |-> [d EXCEPT !.partial = r.p, !.state = "Done"], evs |-> evs,
              ret |-> Failed(r.res.val, 0, <<>>)]
        ELSE IF r.res.tag = "Panic"
        THEN [d |-> [d EXCEPT !.partial = r.p, !.state = "Done"], evs |-> evs,
              ret |-> Panicked]
        ELSE IF e.ev = "NotReady"
        THEN [d |-> [d EXCEPT !.partial = r.p], evs |-> rest, ret |-> NotReady]
        ELSE IF e.ev = "Chunk" THEN poll([d EXCEPT !.partial = push(r.p, e.bytes)], rest)
        ELSE IF e.ev = "End"
        THEN [d |-> [d EXCEPT !.partial = r.p, !.state = after_body(d.state)],
              evs |-> rest, ret |-> body_end(r.p)]
        ELSE [d |-> [d EXCEPT !.partial = r.p, !.state = after_error],
              evs |-> rest, ret |-> Failed("hyper", 0, <<>>)]
    ELSE IF d.state = "CollectingError" THEN
        IF e.ev = "NotReady" THEN Return("CollectingError", NotReady)
        ELSE IF e.ev = "Chunk" THEN poll([d EXCEPT !.bytes = @ \o e.bytes], rest)
        ELSE IF e.ev = "End"
        THEN Return(after_body(d.state), decode_error_body(d.status, d.bytes))
        ELSE Return(after_error, Failed("hyper", 0, <<>>))
    ELSE IF d.state = "FailImmediately" THEN
        [d |-> [d EXCEPT !.state = "Done"], evs |-> evs, ret |-> Failed(d.err, 0, <<>>)]
    ELSE [d |-> d, evs |-> evs, ret |-> Panicked]

\* ---- B2Client::send
\* An api call: whether url(), headers() and body() return Ok, and whether
\* the Builder takes the method and the url.
ApiCalls == [url : BOOLEAN, headers : BOOLEAN, body : BOOLEAN, builder : BOOLEAN]

\* (mutant of send_error: the request is sent whatever the api call returns)
send_error_ignored(api) == ""

\* The error send passes to api.error, "" if it passes a request to
\* api.finalize.
send_error(api) ==
    IF ~api.url THEN "url"
    ELSE IF api.builder /\ ~api.headers THEN "headers"
    ELSE IF ~api.body THEN "body"
    ELSE IF ~api.builder THEN "http"
    ELSE ""

\* ---- what the server and the connection do
\* The bodies: the beginnings (all of it, and <<>>, included) of an array, of
\* an array in an object, each also a body that is cut short, and a body
\* that starts with a closing bracket.
BodyTexts ==
    LET full == { <<"[", "1", ",", "1", "]">>,
                  <<"{", "\"", "1", "\"", ":", "[", "1", ",", "1", "]", "}">> }
    IN UNION {{SubSeq(t, 1, n) : n \in 0..Len(t)} : t \in full} \cup {<<"]">>}

\* The body in one chunk or in two, with or without a NotReady before each
\* event, ended by the end of the data or by an error of the connection.
BodyEvents(text, k, slow, ending) ==
    LET nr == IF slow THEN <<EvNotReady>> ELSE <<>>
        c1 == IF k > 0 THEN nr \o <<EvChunk(SubSeq(text, 1, k))>> ELSE <<>>
        c2 == IF k < Len(text) THEN nr \o <<EvChunk(SubSeq(text, k + 1, Len(text)))>>
              ELSE <<>>
    IN c1 \o c2 \o nr \o <<ending>>

Exchanges ==
    LET bodies == UNION {{BodyEvents(t, k, slow, ending) :
                            k \in 0..Len(t), slow \in BOOLEAN,
                            ending \in {EvEnd, EvError}} : t \in BodyTexts}
        answers == {<<EvError>>} \cup
                   {<<EvResponse(s, z)>> \o b : s \in Statuses, z \in Sizes, b \in bodies}
    IN answers \cup {<<EvNotReady>> \o a : a \in answers}

InitDecoder ==
    /\ \E kind \in Kinds : \E level \in Levels :
          /\ kind # "B2Stream" => level = 1
          /\ dec = Decoder(kind, level, "NotSent", "")
    /\ \E api \in ApiCalls :
          wire = [api |-> api, requests |-> 0, events |-> <<>>, at |-> 0]
    /\ rets = <<>>
    /\ state = NoActiveAuth /\ reauth_lock = FALSE /\ notify = <<>>
    /\ chan = [p \in Procs |-> <<>>] /\ fut = [p \in Procs |-> IdleFut]
    /\ task = [t \in Tasks |-> NoTask] /\ nspawned = 0
    /\ NoJson
    /\ NoThrottle
    /\ NoApiCall

\* B2Client::send(api): api.error(err), or the request and api.finalize.
Send ==
    /\ dec.state = "NotSent"
    /\ LET err == send_error(wire.api) IN
       IF err # ""
       THEN /\ dec' = [dec EXCEPT !.state = "FailImmediately", !.err = err]
            /\ UNCHANGED wire
       ELSE /\ dec' = [dec EXCEPT !.state = "Connecting"]
            /\ \E x \in Exchanges :
                  wire' = [wire EXCEPT !.requests = @ + 1, !.events = x]
    /\ UNCHANGED rets
    /\ UNCHANGED <<vars, jsonvars, thrvars, callvars>>

\* One poll of the decoder; wire.at counts the events the polls have taken
\* from wire.events.  After a panic the decoder is polled no more.
Poll ==
    /\ dec.state # "NotSent"
    /\ IF rets = <<>> THEN TRUE ELSE rets[Len(rets)].tag # "Panic"
    /\ LET r == poll(dec, SubSeq(wire.events, wire.at + 1, Len(wire.events))) IN
       /\ dec' = r.d
       /\ wire' = [wire EXCEPT !.at = Len(wire.events) - Len(r.evs)]
       /\ rets' = Append(rets, r.ret)
    /\ UNCHANGED <<vars, jsonvars, thrvars, callvars>>

NextDecoder == Send \/ Poll

SpecDecoder == InitDecoder /\ [][NextDecoder]_decvars

\* ---- Claims about the response decoders
\* A terminal outcome: an error, the end of a stream, or the value of a
\* future (an element of a stream is not the end of it).
Terminal(r) ==
    \/ r.tag \in {"Err", "ReadyNone"}
    \/ r.tag = "Ready" /\ dec.kind # "B2Stream"

\* The events the polls have taken so far, and the response among them.
Taken == SubSeq(wire.events, 1, wire.at)
TakenEvs == {Taken[k].ev : k \in 1..Len(Taken)}
Responses == {Taken[k] : k \in {j \in 1..Len(Taken) : Taken[j].ev = "Response"}}

\* C16: once a poll has returned a terminal outcome the decoder is Done, and
\* every later poll panics.
C16_DoneAfterTerminalOutcome ==
    \A k \in 1..Len(rets) :
        Terminal(rets[k]) =>
            /\ dec.state = "Done"
            /\ \A j \in (k + 1)..Len(rets) : rets[j] = Panicked

\* A B2Stream that was polled after it had returned the end of the stream.
C16_Witness ==
    /\ dec.kind = "B2Stream"
    /\ \E k \in 1..Len(rets) : rets[k] = ReadyNone /\ Len(rets) > k
    /\ \E k \in 1..Len(rets) : rets[k].tag = "Ready"

\* C18: the poll that takes an error of the exchange or of the byte source
\* returns that error and leaves the decoder Done; no poll issues a request.
C18_TransportErrorEndsDecoder ==
    [][(rets' # rets) =>
         /\ wire'.requests = wire.requests
         /\ wire'.events = wire.events
         /\ (\E k \in (wire.at + 1)..wire'.at : wire.events[k].ev = "Error") =>
               /\ rets'[Len(rets')] = Failed("hyper", 0, <<>>)
               /\ dec'.state = "Done"
               /\ wire'.at = Len(wire.events)
      ]_decvars

\* An error of the byte source, after a chunk of the body was taken, has
\* ended a decoder that is polled once more.
C18_Witness ==
    /\ "Chunk" \in TakenEvs /\ "Error" \in TakenEvs
    /\ Len(rets) >= 2
    /\ rets[Len(rets) - 1] = Failed("hyper", 0, <<>>)
    /\ rets[Len(rets)] = Panicked
    /\ wire.requests = 1

\* The calls of the api call that return an error when send makes them.
FailingCalls ==
    {c \in {"url", "headers", "body"} : ~wire.api[c]}

\* C19: when url(), headers() or body() fails, send issues no request and
\* returns a decoder in FailImmediately; its first poll returns the error of
\* a failing call (or of the Builder, if it refused the request), takes
\* nothing from an exchange and leaves the decoder Done.
C19_FailImmediately ==
    (dec.state # "NotSent" /\ FailingCalls # {}) =>
        /\ wire.requests = 0
        /\ wire.events = <<>> /\ wire.at = 0
        /\ dec.err \in FailingCalls \cup (IF wire.api.builder THEN {} ELSE {"http"})
        /\ ~wire.api.url => dec.err = "url"
        /\ IF rets = <<>> THEN dec.state = "FailImmediately"
           ELSE rets[1] = Failed(dec.err, 0, <<>>) /\ dec.state = "Done"

\* headers() failed, and the decoder send returned has been polled.
C19_Witness ==
    /\ dec.err = "headers"
    /\ wire.api.url /\ wire.api.body
    /\ Len(rets) = 1
    /\ dec.state = "Done"
    /\ wire.requests = 0

\* The bytes of the body the polls have taken.
RECURSIVE ChunksOf(_)
ChunksOf(evs) ==
    IF evs = <<>> THEN <<>>
    ELSE (IF Head(evs).ev = "Chunk" THEN Head(evs).bytes ELSE <<>>) \o ChunksOf(Tail(evs))

\* The errors among what the polls have returned.
Failures == {k \in 1..Len(rets) : rets[k].tag = "Err"}

\* C17 (B2Future and B2Stream): a response whose status is no success never
\* yields a value or an element; up to the end of the body the polls return
\* NotReady, and the poll that takes the end of the body fails, once, with
\* B2Error::B2Error of the status of the response, or with the error of
\* the decoding if the body is no error message.
C17_NonSuccessFailsWithApiError ==
    \A resp \in Responses :
        (dec.kind \in {"B2Future", "B2Stream"}
            /\ resp.status \notin {OK, PARTIAL_CONTENT}) =>
          /\ \A k \in 1..Len(rets) : rets[k].tag \notin {"Ready", "ReadyNone"}
          /\ ("End" \notin TakenEvs /\ "Error" \notin TakenEvs) =>
                /\ dec.state # "Done"
                /\ \A k \in 1..Len(rets) : rets[k] = NotReady
          /\ "End" \in TakenEvs =>
                /\ Cardinality(Failures) = 1
                /\ \A k \in Failures :
                      rets[k] = decode_error_body(resp.status, ChunksOf(Taken))
                /\ \A k \in Failures :
                      \/ rets[k].err = "B2Error" /\ rets[k].status = resp.status
                      \/ rets[k].err = "serde_json"

\* C20: a B2Stream returns the end of the stream only when the PartialJson
\* (kept here as it was when the body ended) holds no unclosed container and
\* no unfinished string: a body that is cut short is an error.
C20_TruncatedBodyIsError ==
    (dec.kind = "B2Stream" /\ \E k \in 1..Len(rets) : rets[k] = ReadyNone) =>
        /\ dec.partial.parens = 0
        /\ ~dec.partial.in_string

\* ----------------------------------------------------------------------
\* Further claims about the AuthSource
\* ----------------------------------------------------------------------
\* The tasks whose finish is in its try_pop loop.
Draining == {t \in Tasks : task[t].pc = "drain"}

\* The refreshes that thread p started itself: its compare_and_swap acquired
\* reauth_lock before it pushed its waiter.
StartedBy(p) == {u \in Spawned : task[u].by = p}

\* C27 (as claimed): a waiter is notified with the result of the refresh
\* round it joined: the result a waiter receives is the one of a draining
\* task, and a waiter that was pushed after a later refresh had acquired
\* reauth_lock (here: the refresh its own thread started) is not notified by
\* an earlier task.
C27_NotifiedByOwnRound ==
    [][\A p \in Procs :
         (chan[p] = <<>> /\ chan'[p] # <<>>) =>
           \E t \in Draining :
               /\ chan'[p] = <<task[t].res>>
               /\ \A u \in StartedBy(p) : u <= t]_vars

\* C28 (as claimed): polling authentication() futures never clears an active
\* authorization: while an authorization installed by a refresh is active
\* and only authentication() futures run, no step changes the state and no
\* step starts a refresh.
C28_PollKeepsActive ==
    [][state.active => (state' = state /\ nspawned' = nspawned)]_vars

\* ----------------------------------------------------------------------
\* The byte-stream throttle: throttle/mod.rs
\* ----------------------------------------------------------------------
\* The smallest bucket size that new() accepts.
MIN_BUCKET_SIZE == 1024

\* A poll that has fewer tokens than this, and fewer than the chunk needs,
\* waits for the timer.
MIN_TOKENS == 1024

\* Milliseconds in a second: the numerator of the wait.
MILLIS_PER_SEC == 1000

\* Most chunks a source yields.
MaxChunks == 2

\* The clock of the single stream stops here ...
MaxTime == 2000

\* ... and the clock of the streams of a Throttle here.
MaxSharedTime == 1000

\* Time that passes between two calls on a stream, in milliseconds.
Delays == {500}

\* Time that can pass inside a poll, between its fill_tokens and the poll of
\* its timer (the computer went into suspend): none, or a long time.
Lags == {0, 1000}

\* The streams of the single-stream specification.
One == {1}

\* Where the clock stops.
Horizon == IF DOMAIN thr = One THEN MaxTime ELSE MaxSharedTime

\* The bucket sizes, the rates (bytes per second; 0: no throttling) and the
\* chunk lengths of the specifications.
BucketSizes == {1024, 2048}
Rates == {0, 1000, 3000}
ChunkLens == {0, 600, 2500}

Min(a, b) == IF a < b THEN a ELSE b

\* bytes::Bytes: a view of len bytes of the source's data, starting after the
\* first off bytes.
View(off, len) == [off |-> off, len |-> len]

\* (mutant of split_off: the tail starts where the chunk starts)
split_off_from_start(bytes, at) == View(bytes.off, bytes.len - at)

\* Bytes::split_off(at): the returned tail [at, len) ...
split_off(bytes, at) == View(bytes.off + at, bytes.len - at)

\* ... and what is left in self: [0, at).
split_off_self(bytes, at) == View(bytes.off, at)

\* The k-th chunk of a source that yields chunks of the lengths lens.
RECURSIVE OffsetOf(_, _)
OffsetOf(lens, k) == IF k <= 1 THEN 0 ELSE OffsetOf(lens, k - 1) + lens[k - 1]

Chunk(lens, k) == View(OffsetOf(lens, k), lens[k])

\* What the last call on a stream returned: the Poll of poll(), by its tag
\* (NotReady, None, Some, Err, Panic) with the chunk of Some; or the pair of
\* into_inner (Inner), with the retained bytes and the position of the
\* returned source.  timer: the poll created a Delay.
ThrottleRet(tag, bytes, timer, inner) ==
    [tag |-> tag, bytes |-> bytes, timer |-> timer, inner |-> inner]

NoCall == ThrottleRet("NoCall", <<>>, FALSE, 0)

\* ThrottledStream::new(stream, bucket_size, rate), at the instant now.  The
\* fields registered and state belong to the shared variant and to the
\* model: state is live until the stream is moved out of or has panicked;
\* notified: the last poll has called task::current().notify(), so that the
\* task is polled again without any other wake-up.
ThrottledStream_new(bucket_size, rate, now) ==
    [tokens |-> bucket_size, last_read |-> now, next |-> <<>>, timeout |-> <<>>,
     registered |-> FALSE, bucket_size |-> bucket_size, rate |-> rate,
     inner |-> 0, state |-> "live", created |-> now, rate_set |-> FALSE,
     notified |-> FALSE]

\* The tokens gained in dur milliseconds at rate tokens per second.  The code
\* computes nanos * rate / 1_000_000_000 on u64 with saturating operations;
\* with nanos = dur * 1_000_000 that is the quotient below, and the values of
\* the specifications stay far below the saturation.
tokens_gained(dur, rate) == (dur * rate) \div MILLIS_PER_SEC

\* (mutant of fill_tokens: the time of the refill is not recorded, so that
\* the same time is credited again)
fill_tokens_keeps_last_read(t, now) ==
    [t EXCEPT !.tokens = Min(t.bucket_size,
                             t.tokens + tokens_gained(now - t.last_read, t.rate))]

\* ThrottledStream::fill_tokens(now)
fill_tokens(t, now) ==
    LET dur == now - t.last_read
        new_tokens == t.tokens + tokens_gained(dur, t.rate)
    IN [t EXCEPT !.tokens = Min(t.bucket_size, new_tokens), !.last_read = now]

\* ThrottledStream::cut_chunk(bytes): the stream after it, the chunk to send
\* and the suffix to store (<<>> for None).
cut_chunk(t, bytes) ==
    IF t.tokens < bytes.len
    THEN [t |-> [t EXCEPT !.tokens = 0],
          send |-> split_off_self(bytes, t.tokens),
          store |-> <<split_off(bytes, t.tokens)>>]
    ELSE [t |-> [t EXCEPT !.tokens = t.tokens - bytes.len],
          send |-> bytes,
          store |-> <<>>]

\* poll: "No throttling is done."
no_throttling(rate) == rate = 0

\* (mutant of kept_on_wait: the chunk is dropped with the local variable)
dropped_on_wait(bytes) == <<>>

\* poll, where it returns NotReady for the timer: self.next = Some(next).
kept_on_wait(bytes) == <<bytes>>

\* (mutant of wait_millis: divide, round down)
wait_millis_floor(needed_tokens, rate) ==
    (needed_tokens * MILLIS_PER_SEC) \div rate

\* The wait of a poll for needed_tokens, in milliseconds (divide, round up).
wait_millis(needed_tokens, rate) ==
    1 + (needed_tokens * MILLIS_PER_SEC - 1) \div rate

\* What the poll of the source (self.inner.poll()) can do.
InnerPolls == {"ready", "notready", "err"}

\* What Delay::poll can do apart from telling the time: fail for a timer
\* that is at capacity or shut down.
TimerErrors == {"none", "at_capacity", "shutdown"}

\* (mutant of stored_timer: the Delay is dropped with the local variable,
\* which cancels its notification)
dropped_timer(deadline) == <<>>

\* poll, where its timer is not ready: "We store the timeout in the struct
\* so it isn't dropped": self.timeout = Some(timeout).
stored_timer(deadline) == <<deadline>>

\* (mutant of must_wait: a poll waits only when it has no token at all)
must_wait_when_empty(tokens, len) == tokens < len /\ tokens = 0

\* poll: "if self.tokens < next.len() && self.tokens < 1024": the chunk does
\* not pass whole and the part that could pass is too small.
must_wait(tokens, len) == tokens < len /\ tokens < MIN_TOKENS

\* The end of a poll: cut_chunk, store the suffix, clear the timeout.
poll_send(t, bytes, now, timer) ==
    LET c == cut_chunk(t, bytes) IN
    [t |-> [c.t EXCEPT !.next = c.store, !.timeout = <<>>],
     ret |-> ThrottleRet("Some", <<c.send>>, timer, 0),
     now |-> now]

\* (mutant of poll_chunk: the rate is not looked at and nothing waits)
poll_chunk_cuts(t, bytes, now, lag, terr) == poll_send(t, bytes, now, FALSE)

\* The middle of a poll, with the chunk in hand: the rate, fill_tokens,
\* and the wait for tokens.  The timer is polled lag milliseconds after
\* fill_tokens has read the clock.
poll_chunk(t, bytes, now, lag, terr) ==
    IF no_throttling(t.rate)
    THEN [t |-> t, ret |-> ThrottleRet("Some", <<bytes>>, FALSE, 0), now |-> now]
    ELSE
    LET f == fill_tokens(t, now) IN
    IF must_wait(f.tokens, bytes.len)
    THEN LET needed_tokens == Min(f.bucket_size, bytes.len - f.tokens)
             deadline == f.last_read + wait_millis(needed_tokens, f.rate)
             later == now + lag
         IN CASE terr = "shutdown" ->
                   [t |-> [f EXCEPT !.next = <<bytes>>, !.state = "panicked"],
                    ret |-> ThrottleRet("Panic", <<>>, TRUE, 0), now |-> later]
              [] terr = "at_capacity" ->
                   [t |-> [f EXCEPT !.next = <<bytes>>, !.notified = TRUE],
                    ret |-> ThrottleRet("NotReady", <<>>, TRUE, 0), now |-> later]
              [] OTHER ->
                   IF later >= deadline
                   THEN poll_send(fill_tokens([f EXCEPT !.timeout = <<>>], later),
                                  bytes, later, TRUE)
                   ELSE [t |-> [f EXCEPT !.timeout = stored_timer(deadline),
                                         !.next = kept_on_wait(bytes)],
                         ret |-> ThrottleRet("NotReady", <<>>, TRUE, 0),
                         now |-> later]
    ELSE poll_send(f, bytes, now, FALSE)

\* <ThrottledStream as Stream>::poll: the stream after the poll, what the
\* poll returns, and the time at its return.  lens: the chunks of the source;
\* ev: what the source does if it is polled.  The poll runs because the task
\* was woken: a notification it had asked for is used up.
throttled_poll(t0, lens, now, ev, lag, terr) ==
    LET t == [t0 EXCEPT !.notified = FALSE] IN
    IF t.next # <<>>
    THEN poll_chunk([t EXCEPT !.next = <<>>], t.next[1], now, lag, terr)
    ELSE CASE ev = "err" ->
                [t |-> t, ret |-> ThrottleRet("Err", <<>>, FALSE, 0), now |-> now]
           [] ev = "notready" ->
                [t |-> t, ret |-> ThrottleRet("NotReady", <<>>, FALSE, 0), now |-> now]
           [] OTHER ->
                IF t.inner = Len(lens)
                THEN [t |-> t, ret |-> ThrottleRet("None", <<>>, FALSE, 0), now |-> now]
                ELSE poll_chunk([t EXCEPT !.inner = t.inner + 1],
                                Chunk(lens, t.inner + 1), now, lag, terr)

\* ThrottledStream::into_inner: (self.next, self.inner).
into_inner(t) == ThrottleRet("Inner", t.next, FALSE, t.inner)

\* The sources: up to MaxChunks chunks of the lengths above.
Sources == UNION {[1..n -> ChunkLens] : n \in 0..MaxChunks}

\* The rest of the model is idle.
OnlyThrottle ==
    /\ state = NoActiveAuth /\ reauth_lock = FALSE /\ notify = <<>>
    /\ chan = [p \in Procs |-> <<>>] /\ fut = [p \in Procs |-> IdleFut]
    /\ task = [t \in Tasks |-> NoTask] /\ nspawned = 0
    /\ NoJson
    /\ NoDecoder
    /\ NoApiCall

\* One ThrottledStream::new(source, bucket_size, rate).
InitThrottle ==
    /\ clock = 0
    /\ \E b \in BucketSizes : \E r \in Rates :
         thr = [s \in One |-> ThrottledStream_new(b, r, 0)]
    /\ stream_count = 0
    /\ feed \in [One -> Sources]
    /\ sent = [s \in One |-> <<>>]
    /\ ret = [s \in One |-> NoCall]
    /\ OnlyThrottle

\* Time passes between two calls.
Advance(d) ==
    /\ clock + d <= Horizon
    /\ clock' = clock + d
    /\ UNCHANGED <<thr, stream_count, feed, sent, ret>>
    /\ UNCHANGED <<vars, jsonvars, decvars, callvars>>

\* Time passes until the timer of a waiting stream fires.
TimerFires(s) ==
    /\ thr[s].state = "live"
    /\ thr[s].timeout # <<>>
    /\ thr[s].timeout[1] > clock
    /\ thr[s].timeout[1] <= Horizon
    /\ clock' = thr[s].timeout[1]
    /\ UNCHANGED <<thr, stream_count, feed, sent, ret>>
    /\ UNCHANGED <<vars, jsonvars, decvars, callvars>>

\* One poll of the stream.
ThrottledPoll(s, ev, lag, terr) ==
    /\ thr[s].state = "live"
    /\ clock + lag <= Horizon
    /\ LET r == throttled_poll(thr[s], feed[s], clock, ev, lag, terr) IN
       /\ thr' = [thr EXCEPT ![s] = r.t]
       /\ ret' = [ret EXCEPT ![s] = r.ret]
       /\ sent' = [sent EXCEPT ![s] =
                     IF r.ret.tag = "Some" THEN Append(@, r.ret.bytes[1]) ELSE @]
       /\ clock' = r.now
    /\ UNCHANGED <<stream_count, feed>>
    /\ UNCHANGED <<vars, jsonvars, decvars, callvars>>

\* ThrottledStream::set_rate(rate); it is called once on a stream at most.
SetRate(s, rate) ==
    /\ thr[s].state = "live"
    /\ ~thr[s].rate_set
    /\ rate # thr[s].rate
    /\ thr' = [thr EXCEPT ![s].rate = rate, ![s].rate_set = TRUE]
    /\ UNCHANGED <<clock, stream_count, feed, sent, ret>>
    /\ UNCHANGED <<vars, jsonvars, decvars, callvars>>

\* ThrottledStream::into_inner(self)
IntoInner(s) ==
    /\ thr[s].state = "live"
    /\ thr' = [thr EXCEPT ![s].state = "unwrapped"]
    /\ ret' = [ret EXCEPT ![s] = into_inner(thr[s])]
    /\ UNCHANGED <<clock, stream_count, feed, sent>>
    /\ UNCHANGED <<vars, jsonvars, decvars, callvars>>

NextThrottle ==
    \/ \E d \in Delays : Advance(d)
    \/ \E s \in One : TimerFires(s)
    \/ \E s \in One : \E ev \in InnerPolls : \E lag \in Lags :
         \E terr \in TimerErrors : ThrottledPoll(s, ev, lag, terr)
    \/ \E s \in One : \E rate \in Rates : SetRate(s, rate)
    \/ \E s \in One : IntoInner(s)

SpecThrottle == InitThrottle /\ [][NextThrottle]_thrvars

\* ----------------------------------------------------------------------
\* Claims about the single-stream throttle
\* ----------------------------------------------------------------------
\* Where a sequence of chunks ends if each one starts where the one before
\* it ends, the first one at from; -1 if one of them does not.
RECURSIVE EndOf(_, _)
EndOf(views, from) ==
    IF views = <<>> THEN from
    ELSE IF Head(views).off # from THEN -1
    ELSE EndOf(Tail(views), from + Head(views).len)

\* The size of a source.
Total(lens) == OffsetOf(lens, Len(lens) + 1)

\* The chunks a source still yields after its first k.
Rest(lens, k) == [i \in 1..(Len(lens) - k) |-> Chunk(lens, k + i)]

\* C21: the chunks the throttled stream has emitted, one after the other,
\* are a prefix of the bytes of the source, and when the stream has ended
\* (a poll returned None) they are all the bytes of the source.
C21_EmittedIsPrefixOfSource ==
    \A s \in DOMAIN thr :
        LET e == EndOf(sent[s], 0) IN
        /\ 0 <= e
        /\ e <= Total(feed[s])
        /\ ret[s].tag = "None" => e = Total(feed[s])

\* A poll has returned NotReady for the timer after a part of the source was
\* emitted, and the stream holds the bytes that come next.
C21_Witness ==
    \E s \in DOMAIN thr :
        /\ ret[s].tag = "NotReady"
        /\ ret[s].timer
        /\ sent[s] # <<>>
        /\ thr[s].next # <<>>
        /\ thr[s].next[1].off = EndOf(sent[s], 0)
        /\ thr[s].next[1].off > OffsetOf(feed[s], thr[s].inner)

\* C23 (as claimed): a stream with a constant nonzero rate R over a source
\* of S bytes has not emitted its last byte earlier than S/R after its
\* creation.
C23_NotFasterThanRate ==
    \A s \in DOMAIN thr :
        (/\ thr[s].rate # 0
         /\ ~thr[s].rate_set
         /\ EndOf(sent[s], 0) = Total(feed[s]))
          => Total(feed[s]) * MILLIS_PER_SEC
               <= thr[s].rate * (clock - thr[s].created)

\* C24: a call that finds the rate zero emits the retained suffix, or else
\* the chunk it takes from the source, as it is and in that poll, creates no
\* timer, and leaves the tokens, the timeout and the clock as they are.
C24_RateZeroPassesThrough ==
    [][\A s \in DOMAIN thr :
         (/\ thr[s].state = "live" /\ thr'[s].state = "live"
          /\ thr[s].rate = 0 /\ thr'[s].rate = 0
          /\ <<thr[s], sent[s], ret[s]>> # <<thr'[s], sent'[s], ret'[s]>>)
           => /\ thr'[s].tokens = thr[s].tokens
              /\ thr'[s].timeout = thr[s].timeout
              /\ thr'[s].last_read = thr[s].last_read
              /\ thr'[s].next = <<>>
              /\ ~ret'[s].timer
              /\ clock' = clock
              /\ IF thr[s].next # <<>>
                 THEN /\ ret'[s] = ThrottleRet("Some", thr[s].next, FALSE, 0)
                      /\ thr'[s].inner = thr[s].inner
                      /\ sent'[s] = Append(sent[s], thr[s].next[1])
                 ELSE IF thr'[s].inner # thr[s].inner
                 THEN /\ thr'[s].inner = thr[s].inner + 1
                      /\ ret'[s] = ThrottleRet("Some",
                                     <<Chunk(feed[s], thr'[s].inner)>>, FALSE, 0)
                      /\ sent'[s] = Append(sent[s], Chunk(feed[s], thr'[s].inner))
                 ELSE /\ ret'[s].tag \in {"NotReady", "None", "Err"}
                      /\ sent'[s] = sent[s]
       ]_thrvars

\* The rate was set to zero while a suffix was retained, and the next poll
\* has emitted the suffix without any token.
C24_Witness ==
    \E s \in DOMAIN thr :
        /\ thr[s].rate = 0
        /\ thr[s].rate_set
        /\ thr[s].tokens = 0
        /\ thr[s].next = <<>>
        /\ ret[s].tag = "Some"
        /\ ret[s].bytes[1].len > 0
        /\ \A k \in 1..Len(feed[s]) : Chunk(feed[s], k) # ret[s].bytes[1]

\* C26: into_inner returns the source with the bytes not yet polled: the
\* chunks emitted before the call, then the returned bytes, then the chunks
\* the returned source still yields, are the bytes of the source in order.
C26_IntoInnerLosesNothing ==
    \A s \in DOMAIN thr :
        ret[s].tag = "Inner" =>
            EndOf(sent[s] \o ret[s].bytes \o Rest(feed[s], ret[s].inner), 0)
              = Total(feed[s])

\* into_inner after a poll that returned NotReady for the timer, in the
\* middle of the source.
C26_Witness ==
    \E s \in DOMAIN thr :
        /\ ret[s].tag = "Inner"
        /\ ret[s].bytes # <<>>
        /\ thr[s].timeout # <<>>
        /\ sent[s] # <<>>
        /\ ret[s].inner < Len(feed[s])

\* ----------------------------------------------------------------------
\* The shared throttle: throttle/async.rs
\* ----------------------------------------------------------------------
\* The streams created from one Throttle: the two of
\* test_throttled_async_read.
Shared == {1, 2}

\* The rates and the sources of the streams of one Throttle.
SharedRates == {0, 2000}
SharedSources == {<<600, 2500>>}

\* Throttle::throttle_stream(stream), at the instant now: the stream is not
\* registered.
throttle_stream(default_bucket_size, default_rate, now) ==
    [ThrottledStream_new(default_bucket_size, default_rate, now)
        EXCEPT !.registered = FALSE]

\* Bytes::split_to(at): the returned head [0, at) ...
split_to(bytes, at) == View(bytes.off, at)

\* ... and what is left in self: [at, len).
split_to_self(bytes, at) == View(bytes.off + at, bytes.len - at)

\* (mutant of share: the whole refill goes to every stream)
share_all(tokens_all, count) == tokens_all

\* fill_tokens: the part of the refill one stream gets; count is
\* self.stream_count.load(Acquire), and it is not zero.
share(tokens_all, count) == tokens_all \div count

\* fill_tokens: the division panics when no stream is registered.
divides_by_zero(count) == count = 0

\* async::ThrottledStream::fill_tokens(now), with count # 0.
async_fill_tokens(t, now, count) ==
    LET dur == now - t.last_read
        tokens == share(tokens_gained(dur, t.rate), count)
    IN [t EXCEPT !.tokens = Min(t.bucket_size, t.tokens + tokens),
                 !.last_read = now]

\* async::ThrottledStream::cut_chunk(bytes)
async_cut_chunk(t, bytes) ==
    IF t.tokens < bytes.len
    THEN [t |-> [t EXCEPT !.tokens = 0],
          send |-> split_to(bytes, t.tokens),
          store |-> <<split_to_self(bytes, t.tokens)>>]
    ELSE [t |-> [t EXCEPT !.tokens = t.tokens - bytes.len],
          send |-> bytes,
          store |-> <<>>]

\* (mutant of register_needed: the flag is not looked at)
register_needed_always(registered) == TRUE

\* register: "if !self.registered".
register_needed(registered) == ~registered

\* unregister: "if self.registered".
unregister_needed(registered) == registered

\* ThrottledStream::register: the stream and the counter after it.  The
\* fetch_add is the only access to shared memory, so that concurrent calls on
\* different streams act as if they were made one after the other.
register(t, count) ==
    IF register_needed(t.registered)
    THEN [t |-> [t EXCEPT !.registered = TRUE], count |-> count + 1]
    ELSE [t |-> t, count |-> count]

\* ThrottledStream::unregister
unregister(t, count) ==
    IF unregister_needed(t.registered)
    THEN [t |-> [t EXCEPT !.registered = FALSE], count |-> count - 1]
    ELSE [t |-> t, count |-> count]

\* What register, unregister and drop return.
Unit == ThrottleRet("Unit", <<>>, FALSE, 0)

\* The panic of the division in fill_tokens.
DivisionPanic == ThrottleRet("Panic", <<>>, FALSE, 0)

\* The end of a poll: cut_chunk, store the suffix, clear the timeout,
\* register.
async_poll_send(t, bytes, now, timer, count) ==
    LET c == async_cut_chunk(t, bytes)
        r == register([c.t EXCEPT !.next = c.store, !.timeout = <<>>], count)
    IN [t |-> r.t, ret |-> ThrottleRet("Some", <<c.send>>, timer, 0),
        now |-> now, count |-> r.count]

\* The middle of a poll, with the chunk in hand.  self.next was emptied by
\* mem::replace, and the paths that return NotReady or panic do not put the
\* chunk back.  (The return for the rate zero names `bytes`, which is not
\* in scope there; it is taken as the chunk in hand.)
async_poll_chunk(t, bytes, now, lag, terr, count) ==
    IF no_throttling(t.rate)
    THEN [t |-> t, ret |-> ThrottleRet("Some", <<bytes>>, FALSE, 0),
          now |-> now, count |-> count]
    ELSE IF divides_by_zero(count)
    THEN [t |-> [t EXCEPT !.state = "panicked"], ret |-> DivisionPanic,
          now |-> now, count |-> count]
    ELSE
    LET f == async_fill_tokens(t, now, count) IN
    IF must_wait(f.tokens, bytes.len)
    THEN LET needed_tokens == Min(f.bucket_size, bytes.len - f.tokens)
             deadline == f.last_read + wait_millis(needed_tokens, f.rate)
             later == now + lag
         IN CASE terr = "shutdown" ->
                   [t |-> [f EXCEPT !.state = "panicked"],
                    ret |-> ThrottleRet("Panic", <<>>, TRUE, 0),
                    now |-> later, count |-> count]
              [] terr = "at_capacity" ->
                   [t |-> [f EXCEPT !.notified = TRUE],
                    ret |-> ThrottleRet("NotReady", <<>>, TRUE, 0),
                    now |-> later, count |-> count]
              [] OTHER ->
                   IF later >= deadline
                   THEN async_poll_send(
                            async_fill_tokens([f EXCEPT !.timeout = <<>>],
                                              later, count),
                            bytes, later, TRUE, count)
                   ELSE [t |-> [f EXCEPT !.timeout = stored_timer(deadline)],
                         ret |-> ThrottleRet("NotReady", <<>>, TRUE, 0),
                         now |-> later, count |-> count]
    ELSE async_poll_send(f, bytes, now, FALSE, count)

\* <async::ThrottledStream as Stream>::poll
async_poll(t0, lens, now, ev, lag, terr, count) ==
    LET t == [t0 EXCEPT !.notified = FALSE] IN
    IF t.next # <<>>
    THEN async_poll_chunk([t EXCEPT !.next = <<>>], t.next[1], now, lag, terr,
                          count)
    ELSE CASE ev = "err" ->
                [t |-> t, ret |-> ThrottleRet("Err", <<>>, FALSE, 0),
                 now |-> now, count |-> count]
           [] ev = "notready" ->
                [t |-> t, ret |-> ThrottleRet("NotReady", <<>>, FALSE, 0),
                 now |-> now, count |-> count]
           [] OTHER ->
                IF t.inner = Len(lens)
                THEN [t |-> t, ret |-> ThrottleRet("None", <<>>, FALSE, 0),
                      now |-> now, count |-> count]
                ELSE async_poll_chunk([t EXCEPT !.inner = t.inner + 1],
                                      Chunk(lens, t.inner + 1), now, lag, terr,
                                      count)

\* Throttle::new(rate, bucket_size) and one throttle_stream per source, for
\* the streams S.
NewThrottle(S) ==
    /\ clock = 0
    /\ \E r \in SharedRates :
         thr = [s \in S |-> throttle_stream(MIN_BUCKET_SIZE, r, 0)]
    /\ stream_count = 0
    /\ \E lens \in SharedSources : feed = [s \in S |-> lens]
    /\ sent = [s \in S |-> <<>>]
    /\ ret = [s \in S |-> NoCall]
    /\ OnlyThrottle

InitShared == NewThrottle(Shared)

\* One poll of a stream of the Throttle.
SharedPoll(s, ev, lag, terr) ==
    /\ thr[s].state = "live"
    /\ clock + lag <= Horizon
    /\ LET r == async_poll(thr[s], feed[s], clock, ev, lag, terr, stream_count) IN
       /\ thr' = [thr EXCEPT ![s] = r.t]
       /\ ret' = [ret EXCEPT ![s] = r.ret]
       /\ sent' = [sent EXCEPT ![s] =
                     IF r.ret.tag = "Some" THEN Append(@, r.ret.bytes[1]) ELSE @]
       /\ clock' = r.now
       /\ stream_count' = r.count
    /\ UNCHANGED feed
    /\ UNCHANGED <<vars, jsonvars, decvars, callvars>>

\* ThrottledStream::register()
Register(s) ==
    /\ thr[s].state = "live"
    /\ LET r == register(thr[s], stream_count) IN
       /\ thr' = [thr EXCEPT ![s] = r.t]
       /\ stream_count' = r.count
    /\ ret' = [ret EXCEPT ![s] = Unit]
    /\ UNCHANGED <<clock, feed, sent>>
    /\ UNCHANGED <<vars, jsonvars, decvars, callvars>>

\* ThrottledStream::unregister()
Unregister(s) ==
    /\ thr[s].state = "live"
    /\ LET r == unregister(thr[s], stream_count) IN
       /\ thr' = [thr EXCEPT ![s] = r.t]
       /\ stream_count' = r.count
    /\ ret' = [ret EXCEPT ![s] = Unit]
    /\ UNCHANGED <<clock, feed, sent>>
    /\ UNCHANGED <<vars, jsonvars, decvars, callvars>>

\* Drop for ThrottledStream, of a stream in use or of one that has panicked.
Drop(s) ==
    /\ thr[s].state \in {"live", "panicked"}
    /\ LET r == unregister(thr[s], stream_count) IN
       /\ thr' = [thr EXCEPT ![s] = [r.t EXCEPT !.state = "dropped"]]
       /\ stream_count' = r.count
    /\ ret' = [ret EXCEPT ![s] = Unit]
    /\ UNCHANGED <<clock, feed, sent>>
    /\ UNCHANGED <<vars, jsonvars, decvars, callvars>>

NextShared ==
    \/ \E d \in Delays : Advance(d)
    \/ \E s \in Shared : TimerFires(s)
    \/ \E s \in Shared : \E ev \in InnerPolls : \E lag \in Lags :
         \E terr \in TimerErrors : SharedPoll(s, ev, lag, terr)
    \/ \E s \in Shared : Register(s)
    \/ \E s \in Shared : Unregister(s)
    \/ \E s \in Shared : Drop(s)

SpecShared == InitShared /\ [][NextShared]_thrvars

\* The counter of a Throttle with more streams: the streams are registered,
\* unregistered, dropped and polled in every order, and no time passes.
NStreams == 3

Counted == 1..NStreams

InitCounter == NewThrottle(Counted)

NextCounter ==
    \/ \E s \in Counted : SharedPoll(s, "ready", 0, "none")
    \/ \E s \in Counted : Register(s)
    \/ \E s \in Counted : Unregister(s)
    \/ \E s \in Counted : Drop(s)

SpecCounter == InitCounter /\ [][NextCounter]_thrvars

\* ----------------------------------------------------------------------
\* Claims about the shared throttle
\* ----------------------------------------------------------------------
\* C22 (as claimed): every stream of a Throttle emits the bytes of its own
\* source in order: its emitted chunks, one after the other, are a prefix of
\* its source, and all of it when the stream has ended.
C22_SharedEmitsItsSource ==
    \A s \in DOMAIN thr :
        LET e == EndOf(sent[s], 0) IN
        /\ 0 <= e
        /\ e <= Total(feed[s])
        /\ ret[s].tag = "None" => e = Total(feed[s])

\* A step is a poll of stream s that had a chunk in hand and a rate that is
\* not zero: it is where poll computes a refill.
Refills(s) ==
    /\ thr[s].state = "live"
    /\ thr[s].rate # 0
    /\ <<thr[s], sent[s], ret[s]>> # <<thr'[s], sent'[s], ret'[s]>>
    /\ \/ ret'[s].tag = "Some"
       \/ ret'[s].tag = "NotReady" /\ ret'[s].timer
       \/ ret'[s].tag = "Panic"

\* The tokens a stream is credited for dur milliseconds when count streams
\* are registered.
Credit(t, dur, count) ==
    Min(t.bucket_size, t.tokens + ((dur * t.rate) \div MILLIS_PER_SEC) \div count)

\* C25: a refill computed while stream_count streams are registered credits
\* the stream with elapsed * rate / stream_count tokens, capped at the
\* bucket size: a poll that then waits leaves the credited tokens, and a
\* poll that emits a chunk leaves them less the length of the chunk (the
\* refill after a timer that was ready at once is credited in the same way).
C25_RefillIsSharedEvenly ==
    [][\A s \in DOMAIN thr :
         (Refills(s) /\ stream_count >= 1 /\ thr'[s].state = "live") =>
           LET first == Credit(thr[s], clock - thr[s].last_read, stream_count)
               second == Credit([thr[s] EXCEPT !.tokens = first],
                                clock' - clock, stream_count)
           IN IF ret'[s].tag = "NotReady"
              THEN thr'[s].tokens = first
              ELSE thr'[s].tokens + ret'[s].bytes[1].len = second
      ]_thrvars

\* Two streams are registered, and one of them has waited and was credited
\* half of what its rate gives in the time since its last read.
C25_Witness ==
    /\ stream_count = 2
    /\ \E s \in DOMAIN thr :
         /\ thr[s].registered
         /\ thr[s].last_read > 0
         /\ ret[s].tag = "NotReady"
         /\ ret[s].timer
         /\ thr[s].tokens > 0
         /\ thr[s].tokens * 2 * MILLIS_PER_SEC = thr[s].last_read * thr[s].rate

\* C29 (as claimed): whenever a stream with a nonzero rate computes a refill,
\* it is registered and the shared count is at least 1, so that the division
\* by the count does not panic.
C29_ActiveFromFirstPull ==
    [][\A s \in DOMAIN thr :
         Refills(s) => /\ thr[s].registered
                       /\ stream_count >= 1
                       /\ ret'[s] # DivisionPanic
      ]_thrvars

\* The streams that have not been dropped.
Alive == {s \in DOMAIN thr : thr[s].state # "dropped"}

\* C30: the shared counter is the number of streams that have not been
\* dropped and whose registered flag is set.
C30_CountIsRegisteredStreams ==
    stream_count = Cardinality({s \in Alive : thr[s].registered})

\* One stream was registered by its poll and then by a call of register,
\* while another one was registered and has been dropped.
C30_Witness ==
    /\ stream_count = 1
    /\ \E s \in DOMAIN thr : \E d \in DOMAIN thr :
         /\ thr[s].state = "live" /\ thr[s].registered
         /\ sent[s] # <<>> /\ ret[s] = Unit
         /\ thr[d].state = "dropped" /\ sent[d] # <<>>

\* ----------------------------------------------------------------------
\* The bucket size of a stream in use: set_bucket_size
\* ----------------------------------------------------------------------
\* The bucket sizes set_bucket_size is called with: one that it refuses and
\* the ones a stream is created with.
NewBucketSizes == {512} \cup BucketSizes

\* ThrottledStream::set_bucket_size(bucket_size): it panics below 1024, and
\* otherwise assigns the field; the tokens are not touched.
set_bucket_size(t, bucket_size) ==
    IF bucket_size < MIN_BUCKET_SIZE
    THEN [t EXCEPT !.state = "panicked"]
    ELSE [t EXCEPT !.bucket_size = bucket_size]

SetBucketSize(s, bucket_size) ==
    /\ thr[s].state = "live"
    /\ bucket_size # thr[s].bucket_size
    /\ thr' = [thr EXCEPT ![s] = set_bucket_size(thr[s], bucket_size)]
    /\ ret' = [ret EXCEPT ![s] =
                 IF thr'[s].state = "panicked"
                 THEN ThrottleRet("Panic", <<>>, FALSE, 0)
                 ELSE ThrottleRet("Unit", <<>>, FALSE, 0)]
    /\ UNCHANGED <<clock, stream_count, feed, sent>>
    /\ UNCHANGED <<vars, jsonvars, decvars, callvars>>

\* A stream whose owner also changes its bucket size between the polls.
NextResize ==
    \/ NextThrottle
    \/ \E s \in One : \E b \in NewBucketSizes : SetBucketSize(s, b)

SpecResize == InitThrottle /\ [][NextResize]_thrvars

\* C31 (as claimed): the tokens of a stream never exceed its bucket size,
\* also right after set_bucket_size has lowered the bucket size and while
\* the rate is zero.
C31_TokensWithinBucket ==
    \A s \in DOMAIN thr : thr[s].tokens <= thr[s].bucket_size

\* The number of bytes in a sequence of chunks.
RECURSIVE SumLen(_)
SumLen(views) ==
    IF views = <<>> THEN 0 ELSE Head(views).len + SumLen(Tail(views))

\* C32: a stream whose rate R is not zero and was never changed, and whose
\* bucket size B was never changed, has emitted at most B + R * t bytes at
\* every instant t after its creation (t in milliseconds, R in bytes per
\* second).
C32_TokenBucketBound ==
    \A s \in DOMAIN thr :
        (thr[s].rate # 0 /\ ~thr[s].rate_set) =>
            SumLen(sent[s]) * MILLIS_PER_SEC
              <= thr[s].bucket_size * MILLIS_PER_SEC
                   + thr[s].rate * (clock - thr[s].created)

\* A stream has emitted more than its bucket holds, after a wait, and all
\* that the bound allows at that instant.
C32_Witness ==
    \E s \in DOMAIN thr :
        /\ thr[s].rate # 0 /\ ~thr[s].rate_set
        /\ clock > thr[s].created
        /\ SumLen(sent[s]) > thr[s].bucket_size
        /\ SumLen(sent[s]) * MILLIS_PER_SEC
             = thr[s].bucket_size * MILLIS_PER_SEC
                 + thr[s].rate * (clock - thr[s].created)

\* C33: a poll that emits a part of the chunk it has in hand and retains the
\* rest emits at least MIN_TOKENS bytes, also when it has created a timer and
\* the timer was ready at once.
C33_NoTinySlice ==
    \A s \in DOMAIN thr :
        (ret[s].tag = "Some" /\ thr[s].next # <<>>) =>
            /\ ret[s].bytes[1].len >= MIN_TOKENS
            /\ thr[s].next[1].len > 0

\* A poll had too few tokens, its timer was ready at once, and it has emitted
\* a part of the chunk and retained the rest.
C33_Witness ==
    \E s \in DOMAIN thr :
        /\ ret[s].tag = "Some"
        /\ ret[s].timer
        /\ thr[s].next # <<>>
        /\ thr[s].rate # 0
        /\ ret[s].bytes[1].len >= MIN_TOKENS

\* The chunk a poll of stream s has in hand: the retained suffix, or else the
\* next chunk of the source.
Pending(s) ==
    IF thr[s].next # <<>> THEN thr[s].next[1]
    ELSE Chunk(feed[s], thr[s].inner + 1)

\* a / b, rounded up.
CeilDiv(a, b) == (a \div b) + (IF a % b = 0 THEN 0 ELSE 1)

\* A step is a poll of stream s that waits: it returns NotReady with the
\* timer it has created stored in the stream.
Waits(s) ==
    /\ thr[s].state = "live"
    /\ thr'[s].rate = thr[s].rate
    /\ <<thr[s], ret[s]>> # <<thr'[s], ret'[s]>>
    /\ ret'[s].tag = "NotReady"
    /\ ret'[s].timer
    /\ ~thr'[s].notified

\* C34: when a poll waits, needed = min(bucket_size, len - tokens) is at
\* least 1, so that needed * 1000 - 1 does not underflow, and the timer is
\* set to ceil(needed * 1000 / rate) milliseconds after the refill, which is
\* at least one millisecond.
C34_WaitIsCeiling ==
    [][\A s \in DOMAIN thr :
         Waits(s) =>
           LET needed == Min(thr'[s].bucket_size,
                             Pending(s).len - thr'[s].tokens)
           IN /\ needed >= 1
              /\ needed * MILLIS_PER_SEC - 1 >= 0
              /\ thr'[s].timeout # <<>>
              /\ thr'[s].timeout[1] - thr'[s].last_read
                   = CeilDiv(needed * MILLIS_PER_SEC, thr'[s].rate)
              /\ thr'[s].timeout[1] - thr'[s].last_read >= 1
      ]_thrvars

\* A stream waits for a time that had to be rounded up.
C34_Witness ==
    \E s \in DOMAIN thr :
        /\ ret[s].tag = "NotReady"
        /\ ret[s].timer
        /\ ~thr[s].notified
        /\ ~thr[s].rate_set
        /\ thr[s].timeout # <<>>
        /\ thr[s].next # <<>>
        /\ (thr[s].timeout[1] - thr[s].last_read) * thr[s].rate
             > Min(thr[s].bucket_size, thr[s].next[1].len - thr[s].tokens)
                 * MILLIS_PER_SEC

\* ----------------------------------------------------------------------
\* A throttled stream that is polled to its end by one task
\* ----------------------------------------------------------------------
\* The task that polls stream s runs: it has not polled yet or has just got
\* a chunk and asks for the next one; or the last poll returned NotReady and
\* the task was woken by what that poll had left registered: the source
\* (which the poll had polled), the stored timer once its time has come, or
\* the notification the poll has sent itself.
Woken(s) ==
    \/ ret[s].tag \in {"NoCall", "Some"}
    \/ ret[s].tag = "NotReady" /\ ~ret[s].timer
    \/ /\ ret[s].tag = "NotReady" /\ ret[s].timer
       /\ \/ thr[s].notified
          \/ thr[s].timeout # <<>> /\ clock >= thr[s].timeout[1]

\* What the source does when it is polled: it is not ready, or it yields
\* its next chunk or its end.
SourcePolls == {"ready", "notready"}

\* What the timer does apart from telling the time: it has no capacity left
\* for a while.
TimerStates == {"none", "at_capacity"}

\* A stream with a rate that is not zero.
InitLive ==
    /\ InitThrottle
    /\ \A s \in One : thr[s].rate # 0

\* The task polls the stream when it is woken.  Time passes inside a poll
\* only up to the horizon.
LivePoll(s, ev, lag, terr) ==
    /\ thr[s].state = "live"
    /\ Woken(s)
    /\ IF lag = 0 THEN TRUE ELSE clock + lag <= Horizon
    /\ LET r == throttled_poll(thr[s], feed[s], clock, ev, lag, terr) IN
       /\ thr' = [thr EXCEPT ![s] = r.t]
       /\ ret' = [ret EXCEPT ![s] = r.ret]
       /\ sent' = [sent EXCEPT ![s] =
                     IF r.ret.tag = "Some" THEN Append(@, r.ret.bytes[1]) ELSE @]
       /\ clock' = r.now
    /\ UNCHANGED <<stream_count, feed>>
    /\ UNCHANGED <<vars, jsonvars, decvars, callvars>>

\* The time of the stored timer of a waiting task comes.
LiveTimerFires(s) ==
    /\ thr[s].state = "live"
    /\ ret[s].tag = "NotReady" /\ ret[s].timer
    /\ thr[s].timeout # <<>>
    /\ thr[s].timeout[1] > clock
    /\ clock' = thr[s].timeout[1]
    /\ UNCHANGED <<thr, stream_count, feed, sent, ret>>
    /\ UNCHANGED <<vars, jsonvars, decvars, callvars>>

NextLive ==
    \/ \E s \in One : \E ev \in SourcePolls : \E lag \in Lags :
         \E terr \in TimerStates : LivePoll(s, ev, lag, terr)
    \/ \E s \in One : LiveTimerFires(s)

\* The source eventually yields each chunk and the timer eventually has
\* capacity (a woken task is eventually polled with both), and the time of a
\* stored timer eventually comes.
FairLive ==
    /\ \A s \in One : WF_thrvars(LivePoll(s, "ready", 0, "none"))
    /\ \A s \in One : WF_thrvars(LiveTimerFires(s))

SpecLive == InitLive /\ [][NextLive]_thrvars /\ FairLive

\* C35: a stream with a rate that is not zero, polled whenever its task is
\* woken, eventually returns the end of the stream.
C35_EventuallyEnds ==
    <>(\A s \in One : ret[s].tag = "None")

\* The stream has returned its end after it has waited for tokens and has
\* emitted a chunk of the source in parts.
C35_Witness ==
    \E s \in One :
        /\ ret[s].tag = "None"
        /\ clock > thr[s].created
        /\ Len(sent[s]) > Len(feed[s])
        /\ SumLen(sent[s]) = Total(feed[s])

\* ----------------------------------------------------------------------
\* Further claims about the streaming decoder
\* ----------------------------------------------------------------------
\* The bytes of the chunks among the first k events of the exchange.
RECURSIVE Received(_)
Received(k) ==
    IF k = 0 THEN <<>>
    ELSE Received(k - 1) \o
         (IF wire.events[k].ev = "Chunk" THEN wire.events[k].bytes ELSE <<>>)

\* The elements the polls have returned.
NumReady(rs) == Cardinality({k \in 1..Len(rs) : rs[k].tag = "Ready"})

\* Event k of the exchange is taken from the byte source by a B2Stream in
\* Collecting: it comes after a response with the status OK.
PulledInCollecting(k) ==
    /\ dec.kind = "B2Stream"
    /\ \E j \in 1..(k - 1) :
          wire.events[j].ev = "Response" /\ wire.events[j].status = OK

\* C36: whenever a B2Stream in Collecting polls its byte source, the
\* decoder has no complete element left: the elements that the bytes
\* received before hold up to a delimiter (the elements of these bytes
\* decoded at once) have all been returned by earlier polls, and the decoder
\* has not failed on them.
C36_DecoderAskedBeforeSource ==
    [][(rets' # rets) =>
         \A k \in (wire.at + 1)..wire'.at :
            PulledInCollecting(k) =>
               LET got == AtOnce(dec.level, Received(k - 1)) IN
               /\ got.res = None
               /\ Len(got.out) = NumReady(rets)
      ]_decvars

\* A B2Stream has returned two elements out of one chunk, the second one
\* by a poll that took nothing from the byte source, whose end is still to
\* come.
C36_Witness ==
    /\ dec.kind = "B2Stream"
    /\ dec.state = "Collecting"
    /\ NumReady(rets) = 2
    /\ Cardinality({k \in 1..wire.at : wire.events[k].ev = "Chunk"}) = 1
    /\ wire.at < Len(wire.events)
    /\ rets[Len(rets)].tag = "Ready"

\* ----------------------------------------------------------------------
\* Further claims about PartialJson
\* ----------------------------------------------------------------------
\* The bytes with every byte inside a string (between its quotes) replaced
\* by a digit.  A string starts at a quote outside a string and ends at the
\* next quote that is not escaped; a backslash escapes the byte after it.
RECURSIVE Neutral(_, _, _, _)
Neutral(s, k, in_str, esc) ==
    IF k > Len(s) THEN <<>>
    ELSE IF ~in_str
         THEN <<s[k]>> \o Neutral(s, k + 1, s[k] = "\"", FALSE)
    ELSE IF esc THEN <<"1">> \o Neutral(s, k + 1, TRUE, FALSE)
    ELSE IF s[k] = "\"" THEN <<s[k]>> \o Neutral(s, k + 1, FALSE, FALSE)
    ELSE <<"1">> \o Neutral(s, k + 1, TRUE, s[k] = "\\")

\* The scan of all the bytes of a PartialJson: next() until it returns None
\* or fails in the scan; an element that serde_json refuses is passed over.
\* bounds: the element boundaries met.
RECURSIVE ScanAll(_, _)
ScanAll(p, bounds) ==
    LET r == next(p) IN
    IF r.res.tag = "Some" \/ r.res = JsonErr("serde_json")
    THEN ScanAll(r.p, bounds + 1)
    ELSE [p |-> r.p, res |-> r.res, bounds |-> bounds]

\* The bytes next() has scanned so far: the ones pushed, less the ones in the
\* buffer after the cursor.
Scanned == pos - (Len(partial.buffer) - partial.i)

\* The element boundaries next() has met so far.
Boundaries == Len(out) + (IF last = JsonErr("serde_json") THEN 1 ELSE 0)

\* C37: what is inside a string changes neither the depth nor the element
\* boundaries, and a string ends at its first quote that is not escaped:
\* after every call of next() that found no unmatched bracket, the depth,
\* the number of boundaries and whether the scan is inside a string are
\* those of the scan of the same bytes with the inside of every string
\* replaced by digits.
C37_StringsAreOpaque ==
    (last.tag \in {"None", "Some"} \/ last = JsonErr("serde_json")) =>
        LET text == SubSeq(Neutral(input, 1, FALSE, FALSE), 1, Scanned)
            ref == ScanAll(push(PartialJson_new(level0), text), 0)
        IN /\ ref.res = None
           /\ ref.p.parens = partial.parens
           /\ ref.p.in_string = partial.in_string
           /\ ref.bounds = Boundaries

\* The scan is inside a string that holds an escaped quote and a closing
\* bracket, and the depth is zero.
C37_Witness ==
    /\ input = <<"\"", "\\", "\"", "]">>
    /\ last = None
    /\ Scanned = Len(input)
    /\ partial.in_string
    /\ partial.parens = 0

\* C38 (as claimed): bytes scanned below the target depth are not kept:
\* whenever next() has returned None with the depth below the level, the
\* buffer is empty and the cursor is 0.
C38_NothingKeptBelowLevel ==
    (last = None /\ partial.parens < partial.level) =>
        /\ partial.buffer = <<>>
        /\ partial.i = 0

\* ---- Several containers at the target depth
\* The containers: an empty array, and arrays of one and of two numbers.
SiblingTexts ==
    { <<"[", "]">>, <<"[", "1", "]">>, <<"[", "1", ",", "1", "]">> }

\* The elements of a container: its numbers.
ElementsOf(c) == [k \in 1..((Len(c) - 1) \div 2) |-> <<"1">>]

RECURSIVE Flattened(_)
Flattened(cs) ==
    IF cs = <<>> THEN <<>> ELSE ElementsOf(Head(cs)) \o Flattened(Tail(cs))

\* The bodies: up to MaxElems containers as the elements of an array or as
\* the values of the members of an object, decoded at level 2; elems are the
\* elements of the containers, in their order.
InitSiblings ==
    /\ \E cs \in UNION {[1..n -> SiblingTexts] : n \in 1..MaxElems} :
       \E object \in BOOLEAN :
          /\ elems = Flattened(cs)
          /\ input =
               IF object
               THEN <<"{">> \o
                    Joined([k \in 1..Len(cs) |-> <<"\"", "1", "\"", ":">> \o cs[k]],
                           <<>>)
                    \o <<"}">>
               ELSE <<"[">> \o Joined(cs, <<>>) \o <<"]">>
    /\ level0 = 2
    /\ partial = PartialJson_new(level0)
    /\ pos = 0
    /\ npush = 0
    /\ out = <<>>
    /\ last = Start
    /\ state = NoActiveAuth /\ reauth_lock = FALSE /\ notify = <<>>
    /\ chan = [p \in Procs |-> <<>>] /\ fut = [p \in Procs |-> IdleFut]
    /\ task = [t \in Tasks |-> NoTask] /\ nspawned = 0
    /\ NoDecoder
    /\ NoThrottle
    /\ NoApiCall

SpecSiblings == InitSiblings /\ [][NextJson]_jsonvars

\* C39 (as claimed): the bytes decoded for an element are the bytes of that
\* element, also for an element that follows an empty container at the
\* target depth: next() never fails, what it has returned so far are the
\* first elements of the containers, and all of them when the decoding is
\* over.
C39_SpanIsTheElement ==
    /\ last.tag \notin {"Err", "Panic"}
    /\ Len(out) <= Len(elems)
    /\ \A k \in 1..Len(out) : out[k] = elems[k]
    /\ JsonFinished => Len(out) = Len(elems)

\* ----------------------------------------------------------------------
\* The ListFileNames api call: files/list_file_names.rs
\* ----------------------------------------------------------------------
\* Most calls of the builder methods on one ListFileNames.
MaxCalls == 3

\* The strings and the counts the methods are called with.
Strs == {"a", "b"}
Counts == {1000}

\* ListFileNames::new(auth, bucket_id): every optional field is None (<<>>).
ListFileNames_new(bucket_id) ==
    [bucket_id |-> bucket_id, start_file_name |-> <<>>,
     max_file_count |-> <<>>, prefix |-> <<>>, delimiter |-> <<>>]

\* ListFileNames::max_file_count(count)
max_file_count(c, count) == [c EXCEPT !.max_file_count = <<count>>]

\* ListFileNames::start_file_name(file_name)
start_file_name(c, file_name) == [c EXCEPT !.start_file_name = <<file_name>>]

\* ListFileNames::prefix(prefix)
prefix(c, arg) == [c EXCEPT !.prefix = <<arg>>]

\* ListFileNames::delimiter(prefix): "self.prefix = Some(prefix)".
delimiter(c, arg) == [c EXCEPT !.prefix = <<arg>>]

\* The builder methods by their names.
Methods == {"max_file_count", "start_file_name", "prefix", "delimiter"}

Args(method) == IF method = "max_file_count" THEN Counts ELSE Strs

apply(c, method, arg) ==
    CASE method = "max_file_count" -> max_file_count(c, arg)
      [] method = "start_file_name" -> start_file_name(c, arg)
      [] method = "prefix" -> prefix(c, arg)
      [] method = "delimiter" -> delimiter(c, arg)

\* #[serde(rename_all = "camelCase")] on ListFileNamesRequest
camelCase ==
    [bucket_id |-> "bucketId", start_file_name |-> "startFileName",
     max_file_count |-> "maxFileCount", prefix |-> "prefix",
     delimiter |-> "delimiter"]

\* ApiCall::body: serde_body(&ListFileNamesRequest { .. }): the JSON object,
\* as the set of its members <<key, value>>; a field that is None is
\* skipped (skip_serializing_if = "Option::is_none").
body(c) ==
    {<<camelCase.bucket_id, c.bucket_id>>} \cup
    {<<camelCase[f], c[f][1]>> :
        f \in {g \in {"start_file_name", "max_file_count", "prefix", "delimiter"} :
                 c[g] # <<>>}}

\* A ListFileNames, the builder calls made on it, and the body of the
\* request once the client has asked for it.
InitListFileNames ==
    /\ call = [api |-> ListFileNames_new("bucket"), calls |-> <<>>, body |-> <<>>]
    /\ state = NoActiveAuth /\ reauth_lock = FALSE /\ notify = <<>>
    /\ chan = [p \in Procs |-> <<>>] /\ fut = [p \in Procs |-> IdleFut]
    /\ task = [t \in Tasks |-> NoTask] /\ nspawned = 0
    /\ NoJson
    /\ NoDecoder
    /\ NoThrottle

\* One call of a builder method.
Build(method, arg) ==
    /\ call.body = <<>>
    /\ Len(call.calls) < MaxCalls
    /\ call' = [call EXCEPT !.api = apply(@, method, arg),
                            !.calls = Append(@, <<method, arg>>)]
    /\ UNCHANGED <<vars, jsonvars, decvars, thrvars>>

\* B2Client::send(api) asks the call for its body.
Body ==
    /\ call.body = <<>>
    /\ call' = [call EXCEPT !.body = <<body(call.api)>>]
    /\ UNCHANGED <<vars, jsonvars, decvars, thrvars>>

NextListFileNames ==
    \/ \E method \in Methods : \E arg \in Args(method) : Build(method, arg)
    \/ Body

SpecListFileNames == InitListFileNames /\ [][NextListFileNames]_callvars

\* The argument of the last call of a method (<<>>: it was not called).
RECURSIVE LastArg(_, _)
LastArg(calls, method) ==
    IF calls = <<>> THEN <<>>
    ELSE IF calls[Len(calls)][1] = method THEN <<calls[Len(calls)][2]>>
    ELSE LastArg(SubSeq(calls, 1, Len(calls) - 1), method)

\* The value of a key in a body (<<>>: the body has no such member).
Member(b, key) ==
    IF \E m \in b : m[1] = key
    THEN <<(CHOOSE m \in b : m[1] = key)[2]>> ELSE <<>>

\* C40 (as claimed): delimiter(d) sets the delimiter and leaves the prefix
\* as it is: the body of the request carries as its delimiter the argument
\* of the last call of delimiter, and as its prefix the argument of the last
\* call of prefix (and no such member if the method was not called).
C40_DelimiterSetsDelimiter ==
    call.body # <<>> =>
        /\ Member(call.body[1], "delimiter") = LastArg(call.calls, "delimiter")
        /\ Member(call.body[1], "prefix") = LastArg(call.calls, "prefix")

====
